---- MODULE Spec2Model ----
(***************************************************************************)
(* A model of the query interceptor of SFQueryEditorHelper (content.js):   *)
(* the accumulator store filled by processResponse, its flush timers, the  *)
(* notifications it hands to showToast, and the patched fetch and          *)
(* XMLHttpRequest.send wrappers that feed it.                              *)
(*                                                                         *)
(* Conventions.                                                            *)
(*  - A JavaScript string is a tuple of one-character strings, so that     *)
(*    the regular expressions of the source are matched on characters.     *)
(*  - An optional value (null/undefined or a value) is <<>> or <<v>>.      *)
(*  - An accumulator is a mutable object: `accs` is the heap (reference -> *)
(*    object), `store` maps a queryId to a reference, a timer closure and  *)
(*    a notification hold a reference. Objects no store entry, pending     *)
(*    timer closure or current notification refers to are garbage and are  *)
(*    dropped from the heap.                                               *)
(*  - dataRows is kept run-length encoded: one chunk [page, n] for the n   *)
(*    rows pushed from the page of that number, in push order.             *)
(***************************************************************************)
EXTENDS Integers, Sequences, FiniteSets, TLC

VARIABLES
    store,      \* Map queryId -> reference of the accumulated entry
    accs,       \* heap: reference -> accumulator object
    timers,     \* pending setTimeout callbacks: handle -> [queryId, acc]
    shown,      \* the showToast calls made by the handler that ran last
    soqlShown,  \* the showSoqlToast calls made by the handler that ran last
    calls,      \* number of processResponse calls made so far
    toolingArmed, \* _toolingQueryArmed
    opened,     \* XMLHttpRequest objects opened and not yet sent
    inflight,   \* exchanges whose response callback has not run yet
    requests,   \* number of patched fetch / open calls made so far
    preflighted, \* history: a Tooling API preflight request has been issued
                \* since the last Tooling API data response was delivered
    handled,    \* the request URL and the response of the exchange whose
                \* response callback the last handler was, if it was one
    lastCall,   \* the patched fetch / send call the last handler was, if
                \* it was one: what the primitive did and what the caller got
    toast,      \* the notification on the page, if any: what it was shown
                \* for and the state of its controls
    run,        \* the local variables of the fetchAllRows / fetchAllSoqlRows
                \* call in progress, if any
    pending,    \* page requests handed to _origFetch and not yet settled
    log,        \* what the runs started from the notification have done so
                \* far: page requests and onProgress / onDone / onError calls
    session,    \* chrome.storage.session of the background worker: tab id ->
                \* stored count, for the keys that are set
    badge,      \* the badge text set for each tab so far
    jobs,       \* the asynchronous jobs of the background worker, by the
                \* number of the event that started them
    received,   \* number of messages and tab events the worker has received
    soqlAuthHeader, \* _soqlAuthHeader
    capturedSql, \* the query text of a captured request, auraInfo.sql
    strippedSql, \* the local baseSql of fetchAllRows, once it is computed
    emitted     \* history: the results showToast was given, if it is kept

storeVars == <<store, accs, timers, shown>>
netVars == <<opened, inflight, requests>>
runVars == <<toast, run, pending, log>>
bgVars == <<session, badge, jobs, received>>
sqlVars == <<capturedSql, strippedSql>>
vars == <<store, accs, timers, shown, soqlShown, calls, toolingArmed,
          opened, inflight, requests, preflighted, handled, lastCall,
          toast, run, pending, log, session, badge, jobs, received,
          soqlAuthHeader, capturedSql, strippedSql, emitted>>

-----------------------------------------------------------------------------
(* Bounds of the model *)

MaxCalls == 3
MaxRequests == 2
MaxEvents == 3

-----------------------------------------------------------------------------
(* Optional values *)

None == <<>>
Some(v) == <<v>>

\* a ?? b on optional values
Coalesce(a, b) == IF a # None THEN a ELSE b

-----------------------------------------------------------------------------
(* Characters and the two regular expressions of extractQueryIdFromUrl *)

LowerSeq == <<"a","b","c","d","e","f","g","h","i","j","k","l","m",
              "n","o","p","q","r","s","t","u","v","w","x","y","z">>
UpperSeq == <<"A","B","C","D","E","F","G","H","I","J","K","L","M",
              "N","O","P","Q","R","S","T","U","V","W","X","Y","Z">>
Digits == {"0","1","2","3","4","5","6","7","8","9"}
Letters == {LowerSeq[i] : i \in 1..26} \cup {UpperSeq[i] : i \in 1..26}

\* [A-Za-z0-9_-]
IdChars == Letters \cup Digits \cup {"_", "-"}

\* case folding of the /i flag
ToLower(c) ==
    IF \E i \in 1..26 : UpperSeq[i] = c
    THEN LowerSeq[CHOOSE i \in 1..26 : UpperSeq[i] = c]
    ELSE c

\* the literal lit (lower case) occurs in s at position i, ignoring case
MatchAtNoCase(s, i, lit) ==
    /\ i >= 1
    /\ i + Len(lit) - 1 <= Len(s)
    /\ \A k \in 1..Len(lit) : ToLower(s[i + k - 1]) = lit[k]

\* last position of the longest run of characters of cls that starts at i
\* (i - 1 when the run is empty)
RunEnd(s, i, cls) ==
    CHOOSE j \in (i - 1)..Len(s) :
        /\ \A k \in i..j : s[k] \in cls
        /\ (j = Len(s) \/ s[j + 1] \notin cls)

LitQuery == <<"/","q","u","e","r","y","/">>
LitQueryIdParam == <<"q","u","e","r","y","i","d","=">>

\* /\/query\/([A-Za-z0-9_-]{10,})(?:\/|$|\?)/i matches at position i.
\* The group is greedy and what follows it is no character of the group, so
\* the group is the longest run.
PathPatternAt(url, i) ==
    /\ MatchAtNoCase(url, i, LitQuery)
    /\ LET j == RunEnd(url, i + 7, IdChars)
       IN  /\ j - (i + 7) + 1 >= 10
           /\ (j = Len(url) \/ url[j + 1] \in {"/", "?"})

\* /[?&]queryId=([A-Za-z0-9_-]+)/i matches at position i
ParamPatternAt(url, i) ==
    /\ i >= 1 /\ i <= Len(url)
    /\ url[i] \in {"?", "&"}
    /\ MatchAtNoCase(url, i + 1, LitQueryIdParam)
    /\ RunEnd(url, i + 9, IdChars) >= i + 9

Leftmost(S) == CHOOSE i \in S : \A k \in S : i <= k

\* extractQueryIdFromUrl(url): the first group of the first pattern that
\* matches, null when none does. url is always a string here (both callers
\* pass one).
ExtractQueryIdFromUrl(url) ==
    LET P1 == {i \in 1..Len(url) : PathPatternAt(url, i)}
        P2 == {i \in 1..Len(url) : ParamPatternAt(url, i)}
    IN  IF P1 # {}
        THEN LET i == Leftmost(P1)
             IN  Some(SubSeq(url, i + 7, RunEnd(url, i + 7, IdChars)))
        ELSE IF P2 # {}
        THEN LET i == Leftmost(P2)
             IN  Some(SubSeq(url, i + 9, RunEnd(url, i + 9, IdChars)))
        ELSE None

-----------------------------------------------------------------------------
(* The regular expressions of processSoqlResponse and of the patches *)

\* the literal lit occurs in s at position i
MatchAt(s, i, lit) ==
    /\ i >= 1
    /\ i + Len(lit) - 1 <= Len(s)
    /\ \A k \in 1..Len(lit) : s[i + k - 1] = lit[k]

LitColumnsTrue == <<"c","o","l","u","m","n","s","=","t","r","u","e">>
LitToolingQuery == <<"/","t","o","o","l","i","n","g","/","q","u","e","r","y">>

\* /[?&]columns=true/.test(url)
IsColumnsPreflight(url) ==
    \E i \in 1..Len(url) :
        url[i] \in {"?", "&"} /\ MatchAt(url, i + 1, LitColumnsTrue)

\* /\/query\/[A-Za-z0-9]+-\d+/.test(url): the run of letters and digits is
\* followed by "-", which is none of them, so it is the longest run
IsContinuationFetch(url) ==
    \E i \in 1..Len(url) :
        /\ MatchAt(url, i, LitQuery)
        /\ LET j == RunEnd(url, i + 7, Letters \cup Digits)
           IN  /\ j >= i + 7
               /\ j + 2 <= Len(url)
               /\ url[j + 1] = "-"
               /\ url[j + 2] \in Digits

\* /\/tooling\/query[/?]/.test(url)
IsToolingQuery(url) ==
    \E i \in 1..Len(url) :
        /\ MatchAt(url, i, LitToolingQuery)
        /\ i + 14 <= Len(url)
        /\ url[i + 14] \in {"/", "?"}

-----------------------------------------------------------------------------
(* Query text: stripLimitOffset and the paginated query of fetchAllRows *)

\* \s
Spaces == {" ", "\t", "\n"}

\* the last position at or before i whose character is not of cls (0 when
\* there is none): where a greedy class run that ends at i begins, less one
SkipBack(s, i, cls) ==
    CHOOSE k \in 0..i :
        /\ k = 0 \/ s[k] \notin cls
        /\ \A m \in (k + 1)..i : s[m] \in cls

\* s.trim()
Trim(s) ==
    LET last == SkipBack(s, Len(s), Spaces)
        first == RunEnd(s, 1, Spaces) + 1
    IN  IF last = 0 THEN << >> ELSE SubSeq(s, first, last)

\* s.replace(/\s+KW\s+\d+\s*$/i, '') for the keyword kw (lower case): the
\* digits end where the trailing white space begins, the leftmost match
\* starts with the white space before the keyword
StripClause(s, kw) ==
    LET a == SkipBack(s, Len(s), Spaces)
        b == SkipBack(s, a, Digits)
        c == SkipBack(s, b, Spaces)
        d == c - Len(kw)
        e == IF d >= 0 THEN SkipBack(s, d, Spaces) ELSE 0
    IN  IF /\ b < a
           /\ c < b
           /\ d >= 1
           /\ MatchAtNoCase(s, d + 1, kw)
           /\ e < d
        THEN SubSeq(s, 1, e)
        ELSE s

LitOffset == <<"o","f","f","s","e","t">>
LitLimit == <<"l","i","m","i","t">>

\* stripLimitOffset(sql)
stripLimitOffset(sql) ==
    Trim(StripClause(StripClause(sql, LitOffset), LitLimit))

\* String(n) for a number that is not negative
DigitSeq == <<"0", "1", "2", "3", "4", "5", "6", "7", "8", "9">>
RECURSIVE Decimal(_)
Decimal(n) ==
    IF n < 10 THEN << DigitSeq[n + 1] >>
    ELSE Decimal(n \div 10) \o << DigitSeq[(n % 10) + 1] >>

\* `${baseSql} LIMIT ${BATCH} OFFSET ${offset}`
PaginatedSql(baseSql, limit, offset) ==
    baseSql \o <<" ","L","I","M","I","T"," ">> \o Decimal(limit)
            \o <<" ","O","F","F","S","E","T"," ">> \o Decimal(offset)

-----------------------------------------------------------------------------
(* JavaScript values used by processResponse *)

\* acc.totalRows is a number or Infinity
Infinity == [inf |-> TRUE, n |-> 0]
Finite(n) == [inf |-> FALSE, n |-> n]

\* a >= t and a < t for a number a and a totalRows value t
GreaterEq(a, t) == ~t.inf /\ a >= t.n
LessThan(a, t) == t.inf \/ a < t.n

\* Metadata values: undefined, an empty array, two column descriptor arrays.
\* Of these only undefined is falsy in JavaScript: an empty array is truthy.
MdUndefined == "undefined"
MdEmptyArray == "[]"
MdCols5 == "cols5"
MdColsB == "colsB"
Truthy(md) == md # MdUndefined

\* if (queryId): null and the empty string are falsy
TruthyId(qid) == qid # None /\ qid[1] # <<>>

\* dataRows, run-length encoded
RowsLen(rows) ==
    LET Sum[i \in 0..Len(rows)] == IF i = 0 THEN 0 ELSE Sum[i - 1] + rows[i].n
    IN  Sum[Len(rows)]

\* acc.dataRows.push(...payload.dataRows)
PushRows(rows, n, page) ==
    IF n = 0 THEN rows ELSE Append(rows, [page |-> page, n |-> n])

-----------------------------------------------------------------------------
(* Response detection *)

\* isDCQueryResponse(data): data.actions[0].returnValue is there and its
\* dataRows is an array. data.rv is the optional returnValue, rv.dataRows
\* the optional array (given by its length).
isDCQueryResponse(data) == data.rv # None /\ data.rv[1].dataRows # None

\* isSoqlQueryResponse(data): records is an array (given by its length),
\* totalSize a number and done a boolean
isSoqlQueryResponse(data) ==
    data.records # None /\ data.totalSize # None /\ data.done # None

\* unwrapPayload(data)
unwrapPayload(data) == data.rv[1]

\* payload.status?.queryId
StatusQueryId(payload) ==
    IF payload.status = None THEN None ELSE payload.status[1].queryId

\* mutant of PageQueryId: the URL is asked before the body
PageQueryIdUrlFirst(payload, requestUrl) ==
    Coalesce(ExtractQueryIdFromUrl(requestUrl), StatusQueryId(payload))

\* the queryId of a page: the body's, else the URL's, else null
PageQueryId(payload, requestUrl) ==
    Coalesce(StatusQueryId(payload), ExtractQueryIdFromUrl(requestUrl))

\* thisPageRows: the declared returnedRows when it is a number, else the
\* length of dataRows
ThisPageRows(payload) ==
    IF payload.returnedRows # None
    THEN payload.returnedRows[1]
    ELSE payload.dataRows[1]

\* totalRows: status.rowCount when it is a number, else null
PageTotalRows(payload) ==
    IF payload.status = None THEN None ELSE payload.status[1].rowCount

-----------------------------------------------------------------------------
(* showToast *)

\* mutant of IsLimited: an unknown total counts as not reached
IsLimitedAnyTotal(acc) == LessThan(acc.returnedRows, acc.totalRows)

\* isLimited of showToast
IsLimited(acc) == LessThan(acc.returnedRows, acc.totalRows) /\ ~acc.totalRows.inf

\* mutant of CanFetchAll: a captured replay context is enough
CanFetchAllWithContext(acc) == acc.auraInfo # None

\* canFetchAll of showToast
CanFetchAll(acc) == IsLimited(acc) /\ acc.auraInfo # None

\* One showToast(acc) call: the object it was given (its reference and its
\* contents at the call), the call site, and what the notification offers.
ShowToast(ref, acc, site) ==
    [ref |-> ref, acc |-> acc, site |-> site,
     isLimited |-> IsLimited(acc), canFetchAll |-> CanFetchAll(acc)]

\* One showSoqlToast(data) call: the response it was given and what the
\* notification offers (isLimited, canFetchAll).
ShowSoqlToast(data) ==
    [data |-> data,
     isLimited |-> ~data.done[1],
     canFetchAll |-> ~data.done[1] /\ data.nextRecordsUrl # None
                        /\ data.nextRecordsUrl[1] # << >>]

-----------------------------------------------------------------------------
(* The accumulator store *)

\* the object stored for an unseen queryId. supplied is history: the replay
\* contexts the merges were called with, in order. firstMd, pageSum and lastPage are
\* history: the first non-empty metadata of the pages merged so far, the
\* number of rows those pages carried and the number of the last of them.
NewAccumulator(queryId, payload, totalRows, auraInfo) ==
    [queryId |-> Some(queryId),
     dataRows |-> << >>,
     metadata |-> payload.metadata,
     returnedRows |-> 0,
     totalRows |-> IF totalRows # None THEN Finite(totalRows[1]) ELSE Infinity,
     flushTimer |-> 0,
     auraInfo |-> auraInfo,
     firstMd |-> None,
     pageSum |-> 0,
     lastPage |-> 0,
     supplied |-> << >>]

\* if (totalRows !== null) acc.totalRows = totalRows
MergeTotal(cur, totalRows) ==
    IF totalRows # None THEN Finite(totalRows[1]) ELSE cur

\* if (!acc.metadata && payload.metadata) acc.metadata = payload.metadata
MergeMetadata(cur, md) ==
    IF ~Truthy(cur) /\ Truthy(md) THEN md ELSE cur

\* mutant of MergeAuraInfo: the replay context of the last request is kept
MergeAuraInfoLatest(cur, auraInfo) ==
    IF auraInfo # None THEN auraInfo ELSE cur

\* if (auraInfo && !acc.auraInfo) acc.auraInfo = auraInfo
MergeAuraInfo(cur, auraInfo) ==
    IF auraInfo # None /\ cur = None THEN auraInfo ELSE cur

\* history: the first non-empty metadata seen
NoteMetadata(first, md) ==
    IF first = None /\ md \notin {MdUndefined, MdEmptyArray} THEN Some(md) ELSE first

\* the accumulator after the merge of one page (before the completion test)
MergePage(acc, payload, totalRows, auraInfo, page) ==
    [acc EXCEPT
        !.dataRows = PushRows(@, payload.dataRows[1], page),
        !.returnedRows = @ + ThisPageRows(payload),
        !.totalRows = MergeTotal(@, totalRows),
        !.metadata = MergeMetadata(@, payload.metadata),
        !.auraInfo = MergeAuraInfo(@, auraInfo),
        !.firstMd = NoteMetadata(@, payload.metadata),
        !.supplied = IF auraInfo # None THEN Append(@, auraInfo[1]) ELSE @,
        !.pageSum = @ + payload.dataRows[1],
        !.lastPage = page]

\* mutant of ClearTimeout: the timer stays pending
ClearTimeoutIgnored(ts, handle) == ts

\* if (acc._flushTimer) clearTimeout(acc._flushTimer)
ClearTimeout(ts, handle) ==
    [h \in DOMAIN ts \ {handle} |-> ts[h]]

\* mutant of MergeOutcome: an accumulator with rows is never completed by a
\* merge, it waits for its timer
MergeOutcomeLate(acc) ==
    IF acc.returnedRows > 0 THEN "arm"
    ELSE IF GreaterEq(acc.returnedRows, acc.totalRows) THEN "complete"
    ELSE "wait"

\* the branch taken after a merge
MergeOutcome(acc) ==
    IF GreaterEq(acc.returnedRows, acc.totalRows) THEN "complete"
    ELSE IF acc.returnedRows > 0 THEN "arm"
    ELSE "wait"

\* a reference no live object has; a handle no pending or remembered timer has
FreshRef == CHOOSE r \in 1..(Cardinality(DOMAIN accs) + 1) : r \notin DOMAIN accs
FreshHandle ==
    LET used == DOMAIN timers \cup {accs[r].flushTimer : r \in DOMAIN accs}
    IN  CHOOSE h \in 1..(Cardinality(used) + 1) : h \notin used

\* the objects the notifications shown so far refer to, where the history
\* of the notifications is kept
EmittedRefs ==
    IF emitted = None THEN {}
    ELSE {emitted[1][i].ref : i \in 1..Len(emitted[1])}

\* the heap without the objects nothing refers to any more
Collect(heap, st, ts, sh) ==
    LET live == {st[q] : q \in DOMAIN st}
                \cup {ts[h].acc : h \in DOMAIN ts}
                \cup {sh[i].ref : i \in 1..Len(sh)}
                \cup EmittedRefs
    IN  [r \in DOMAIN heap \cap live |-> heap[r]]

\* the history of the notifications after a handler has run: each result
\* showToast was given, with the object it is and its value at that time
NoteEmitted ==
    emitted' =
        IF emitted = None THEN None
        ELSE Some(emitted[1] \o
                  [i \in 1..Len(shown') |->
                      [ref |-> shown'[i].ref, acc |-> shown'[i].acc,
                       site |-> shown'[i].site]])

MapPut(f, k, v) == [x \in DOMAIN f \cup {k} |-> IF x = k THEN v ELSE f[x]]
MapDelete(f, k) == [x \in DOMAIN f \ {k} |-> f[x]]

-----------------------------------------------------------------------------
(* processResponse *)

\* mutant of TimersOnComplete: the completion branch leaves the timer pending
TimersKeptOnComplete(ts, acc) == ts

\* the pending timers after the completion branch
TimersOnComplete(ts, acc) ==
    IF acc.flushTimer # 0 THEN ClearTimeout(ts, acc.flushTimer) ELSE ts

\* mutant of TimersOnArm: the arming branch leaves the old timer pending
TimersKeptOnArm(ts, acc) == ts

\* the pending timers after the old one is cancelled in the arming branch
TimersOnArm(ts, acc) ==
    IF acc.flushTimer # 0 THEN ClearTimeout(ts, acc.flushTimer) ELSE ts

\* the delay of the flush timer, in milliseconds
FlushDelay == 1500

\* setTimeout(() => { ... }, 1_500) for the accumulator ref of queryId;
\* armedAt is history: the number of the page whose merge armed the timer
SetTimeout(queryId, ref, page) ==
    [queryId |-> queryId, acc |-> ref, delay |-> FlushDelay, armedAt |-> page]

\* mutant of StoreAfterFlush: the entry stays in the store
StoreKeptAfterFlush(queryId) == store

\* store.delete(queryId)
StoreAfterFlush(queryId) == MapDelete(store, queryId)

\* the branch of an accumulating query (the page has a queryId)
Accumulate(queryId, payload, totalRows, auraInfo, page) ==
    LET seen == queryId \in DOMAIN store
        ref == IF seen THEN store[queryId] ELSE FreshRef
        acc0 == IF seen THEN accs[ref]
                ELSE NewAccumulator(queryId, payload, totalRows, auraInfo)
        acc == MergePage(acc0, payload, totalRows, auraInfo, page)
        outcome == MergeOutcome(acc)
    IN  CASE outcome = "complete" ->
               LET ts == TimersOnComplete(timers, acc)
                   st == StoreAfterFlush(queryId)
                   sh == << ShowToast(ref, acc, "complete") >>
               IN  /\ timers' = ts
                   /\ store' = st
                   /\ shown' = sh
                   /\ accs' = Collect(MapPut(accs, ref, acc), st, ts, sh)
          [] outcome = "arm" ->
               LET h == FreshHandle
                   ts == MapPut(TimersOnArm(timers, acc), h,
                                SetTimeout(queryId, ref, page))
                   st == MapPut(store, queryId, ref)
                   armed == [acc EXCEPT !.flushTimer = h]
               IN  /\ timers' = ts
                   /\ store' = st
                   /\ shown' = << >>
                   /\ accs' = Collect(MapPut(accs, ref, armed), st, ts, << >>)
          [] OTHER ->
               LET st == MapPut(store, queryId, ref)
               IN  /\ timers' = timers
                   /\ store' = st
                   /\ shown' = << >>
                   /\ accs' = Collect(MapPut(accs, ref, acc), st, timers, << >>)

\* the object built for a page without queryId
SingleResult(payload, page) ==
    [queryId |-> None,
     dataRows |-> PushRows(<< >>, payload.dataRows[1], page),
     metadata |-> payload.metadata,
     returnedRows |-> ThisPageRows(payload),
     totalRows |-> Finite(ThisPageRows(payload)),
     flushTimer |-> 0,
     auraInfo |-> None,
     firstMd |-> NoteMetadata(None, payload.metadata),
     pageSum |-> payload.dataRows[1],
     lastPage |-> page,
     supplied |-> << >>]

\* the branch of a page without queryId
SelfContained(payload, page) ==
    IF ~Truthy(payload.metadata)
    THEN /\ shown' = << >>
         /\ accs' = Collect(accs, store, timers, << >>)
         /\ UNCHANGED <<store, timers>>
    ELSE LET ref == FreshRef
             sh == << ShowToast(ref, SingleResult(payload, page), "single") >>
         IN  /\ shown' = sh
             /\ accs' = Collect(MapPut(accs, ref, SingleResult(payload, page)),
                                store, timers, sh)
             /\ UNCHANGED <<store, timers>>

\* processResponse(data, requestUrl, auraInfo); page numbers the call
processResponse(data, requestUrl, auraInfo, page) ==
    IF ~isDCQueryResponse(data)
    THEN /\ shown' = << >>
         /\ accs' = Collect(accs, store, timers, << >>)
         /\ UNCHANGED <<store, timers>>
    ELSE LET payload == unwrapPayload(data)
             queryId == PageQueryId(payload, requestUrl)
         IN  IF TruthyId(queryId)
             THEN Accumulate(queryId[1], payload, PageTotalRows(payload),
                             auraInfo, page)
             ELSE SelfContained(payload, page)

\* mutant of SoqlVerdict: continuation fetches are not filtered out
SoqlVerdictOfContinuations(data, requestUrl, armed) ==
    IF ~isSoqlQueryResponse(data) THEN "ignore"
    ELSE IF data.records[1] = 0 THEN "ignore"
    ELSE IF IsColumnsPreflight(requestUrl) THEN "ignore"
    ELSE IF IsToolingQuery(requestUrl)
         THEN IF armed THEN "consume" ELSE "ignore"
    ELSE "show"

\* what processSoqlResponse does with a response: "ignore" it, "show" it,
\* or "consume" the armed flag and show it
SoqlVerdict(data, requestUrl, armed) ==
    IF ~isSoqlQueryResponse(data) THEN "ignore"
    ELSE IF data.records[1] = 0 THEN "ignore"
    ELSE IF IsColumnsPreflight(requestUrl) THEN "ignore"
    ELSE IF IsContinuationFetch(requestUrl) THEN "ignore"
    ELSE IF IsToolingQuery(requestUrl)
         THEN IF armed THEN "consume" ELSE "ignore"
    ELSE "show"

\* mutant of processSoqlResponse: the armed flag is not consumed
processSoqlResponseSticky(data, requestUrl) ==
    LET verdict == SoqlVerdict(data, requestUrl, toolingArmed)
    IN  /\ toolingArmed' = toolingArmed
        /\ soqlShown' = IF verdict = "ignore" THEN << >>
                        ELSE << ShowSoqlToast(data) >>

\* processSoqlResponse(data, requestUrl)
processSoqlResponse(data, requestUrl) ==
    LET verdict == SoqlVerdict(data, requestUrl, toolingArmed)
    IN  /\ toolingArmed' = IF verdict = "consume" THEN FALSE ELSE toolingArmed
        /\ soqlShown' = IF verdict = "ignore" THEN << >>
                        ELSE << ShowSoqlToast(data) >>

\* mutant of FlushTimer: the flush empties the store
FlushTimerClearingStore(h) ==
    LET t == timers[h]
        ts == MapDelete(timers, h)
    IN  IF t.queryId \notin DOMAIN store
        THEN /\ timers' = ts
             /\ shown' = << >>
             /\ accs' = Collect(accs, store, ts, << >>)
             /\ UNCHANGED store
        ELSE LET st == << >>
                 sh == << ShowToast(t.acc, accs[t.acc], "timer") >>
             IN  /\ timers' = ts
                 /\ store' = st
                 /\ shown' = sh
                 /\ accs' = Collect(accs, st, ts, sh)

\* the callback armed by setTimeout in processResponse
FlushTimer(h) ==
    LET t == timers[h]
        ts == MapDelete(timers, h)
    IN  IF t.queryId \notin DOMAIN store
        THEN /\ timers' = ts
             /\ shown' = << >>
             /\ accs' = Collect(accs, store, ts, << >>)
             /\ UNCHANGED store
        ELSE LET st == MapDelete(store, t.queryId)
                 sh == << ShowToast(t.acc, accs[t.acc], "timer") >>
             IN  /\ timers' = ts
                 /\ store' = st
                 /\ shown' = sh
                 /\ accs' = Collect(accs, st, ts, sh)

-----------------------------------------------------------------------------------------------------------------------------------------------------
(* The exchanges the store is driven with *)

\* queryIds: one of ten characters, one of four
Q1 == <<"0","L","f","0","0","0","0","0","0","1">>
Q2 == <<"0","L","f","2">>

\* "/aura?r=1": no queryId
UrlAura == <<"/","a","u","r","a","?","r","=","1">>
\* "/query/0Lf0000001": Q1 in the path
UrlPathQ1 == LitQuery \o Q1
\* "/aura?r=1&queryId=0Lf2": Q2 as a parameter
UrlParamQ2 == UrlAura \o <<"&">> \o <<"q","u","e","r","y","I","d","=">> \o Q2
\* "/query/0Lf2": an id in the path that is too short for the path pattern
UrlPathShort == LitQuery \o Q2

Urls == {UrlAura, UrlPathQ1, UrlParamQ2, UrlPathShort}

\* "SELECT a FROM T LIMIT 1000" and "SELECT b FROM U"
SqlA == <<"S","E","L","E","C","T"," ","a"," ","F","R","O","M"," ","T"," ","L","I","M","I","T"," ","1","0","0","0">>
SqlB == <<"S","E","L","E","C","T"," ","b"," ","F","R","O","M"," ","U">>

\* what extractAuraInfo returns for two Aura query requests sent to UrlAura
AuraA == [sql |-> SqlA, descriptor |-> "dcQuery",
          dataspace |-> "default", auraContext |-> Some("ctx"),
          auraToken |-> Some("tok"), auraUrl |-> UrlAura]
AuraB == [sql |-> SqlB, descriptor |-> "dcQuery",
          dataspace |-> "ds2", auraContext |-> Some("ctx"),
          auraToken |-> None, auraUrl |-> UrlAura]
AuraInfos == {None, Some(AuraA), Some(AuraB)}

PageSizes == {0, 1000, 1500}
DeclaredCounts == {None, Some(999)}
Totals == {None, Some(1000), Some(2500)}
BodyQueryIds == {None, Some(Q1)}
Metadatas == {MdUndefined, MdEmptyArray, MdCols5, MdColsB}

\* An exchange, by what varies in it: the number of rows of the page, its
\* declared returnedRows, status.rowCount and status.queryId, its metadata,
\* the request URL and the replay context parsed from the request body.
\* The plain page: 1000 rows of query Q1, nothing else declared.
PlainPage ==
    [size |-> 1000, declared |-> None, total |-> None, qid |-> Some(Q1),
     md |-> MdUndefined, url |-> UrlAura, aura |-> None]

\* the pages that differ from the plain page in one respect
Variants ==
    {[PlainPage EXCEPT !.size = x] : x \in PageSizes}
    \cup {[PlainPage EXCEPT !.declared = x] : x \in DeclaredCounts}
    \cup {[PlainPage EXCEPT !.total = x] : x \in Totals}
    \cup {[PlainPage EXCEPT !.qid = x] : x \in BodyQueryIds}
    \cup {[PlainPage EXCEPT !.md = x] : x \in Metadatas}
    \cup {[PlainPage EXCEPT !.url = x] : x \in Urls}
    \cup {[PlainPage EXCEPT !.aura = x] : x \in AuraInfos}

\* first page of a capped query: 1000 rows, 5 columns, total 2500
FirstPage ==
    [PlainPage EXCEPT !.total = Some(2500), !.md = MdCols5, !.aura = Some(AuraA)]
\* continuation pages: no status block, no metadata, queryId in the URL only
ContinuationPages ==
    {[PlainPage EXCEPT !.qid = None, !.url = u, !.size = n] :
        u \in {UrlPathQ1, UrlParamQ2}, n \in {1000, 1500}}
\* a first page without rows whose total is known
EmptyFirstPage == [PlainPage EXCEPT !.size = 0, !.total = Some(2500)]
\* pages without queryId anywhere that carry columns and rows
SinglePages ==
    {[PlainPage EXCEPT !.qid = None, !.md = MdCols5, !.size = n, !.declared = d] :
        n \in {1000, 1500}, d \in DeclaredCounts}

Exchanges ==
    Variants \cup {FirstPage, EmptyFirstPage} \cup ContinuationPages \cup SinglePages

\* the status block of a page: absent when it would carry nothing
StatusOf(e) ==
    IF e.qid = None /\ e.total = None THEN None
    ELSE Some([queryId |-> e.qid, rowCount |-> e.total])

\* the parsed JSON body of an exchange
DataOf(e) ==
    [rv |-> Some([dataRows |-> Some(e.size), returnedRows |-> e.declared,
                  status |-> StatusOf(e), metadata |-> e.md]),
     records |-> None, totalSize |-> None, done |-> None,
     nextRecordsUrl |-> None]

\* a JSON body that is no query response
NotAQuery ==
    [rv |-> None, records |-> None, totalSize |-> None, done |-> None,
     nextRecordsUrl |-> None]

-----
(* Specification of the accumulator store: processResponse is called with   *)
(* any body, request URL and replay context; pending timers fire at any     *)
(* time.                                                                    *)

Init ==
    /\ store = << >>
    /\ accs = << >>
    /\ timers = << >>
    /\ shown = << >>
    /\ soqlShown = << >>
    /\ calls = 0
    /\ toolingArmed = FALSE
    /\ opened = {}
    /\ inflight = {}
    /\ requests = 0
    /\ preflighted = FALSE
    /\ handled = None
    /\ lastCall = None
    /\ toast = None
    /\ run = None
    /\ pending = {}
    /\ log = << >>
    /\ session = << >>
    /\ badge = << >>
    /\ jobs = << >>
    /\ received = 0
    /\ soqlAuthHeader = None
    /\ capturedSql = << >>
    /\ strippedSql = None
    /\ emitted = None

\* the two classifier calls of a response callback
Classify(data, requestUrl, auraInfo) ==
    /\ calls' = calls + 1
    /\ processResponse(data, requestUrl, auraInfo, calls + 1)
    /\ processSoqlResponse(data, requestUrl)
    /\ NoteEmitted

\* a request to url is a Tooling API preflight
IsToolingPreflight(url) == IsToolingQuery(url) /\ IsColumnsPreflight(url)

\* the response to a request to url is a Tooling API data response
IsToolingData(url, parsed) ==
    /\ IsToolingQuery(url)
    /\ ~IsColumnsPreflight(url)
    /\ parsed # None
    /\ isSoqlQueryResponse(parsed[1])

\* the history after a request to url has been issued
NoteRequest(url) == preflighted' = (preflighted \/ IsToolingPreflight(url))

\* the history after the response to a request to url has been delivered
NoteResponse(url, parsed) ==
    preflighted' = (preflighted /\ ~IsToolingData(url, parsed))

\* a response callback runs for a parsed body
Deliver(data, requestUrl, auraInfo) ==
    /\ calls < MaxCalls
    /\ Classify(data, requestUrl, auraInfo)
    /\ NoteResponse(requestUrl, Some(data))
    /\ handled' = None
    /\ lastCall' = None
    /\ UNCHANGED netVars
    /\ UNCHANGED runVars
    /\ UNCHANGED bgVars
    /\ UNCHANGED sqlVars
    /\ UNCHANGED soqlAuthHeader

\* the timer h fires, but for what its callback does to the page
TimerFires(h) ==
    /\ h \in DOMAIN timers
    /\ FlushTimer(h)
    /\ NoteEmitted
    /\ soqlShown' = << >>
    /\ lastCall' = None
    /\ handled' = None
    /\ UNCHANGED <<calls, toolingArmed, preflighted>>
    /\ UNCHANGED netVars
    /\ UNCHANGED bgVars
    /\ UNCHANGED sqlVars
    /\ UNCHANGED soqlAuthHeader

\* the timer h fires, the page left aside
Fire(h) == TimerFires(h) /\ UNCHANGED runVars

Next ==
    \/ \E e \in Exchanges : Deliver(DataOf(e), e.url, e.aura)
    \/ \E u \in Urls : Deliver(NotAQuery, u, None)
    \/ \E h \in DOMAIN timers : Fire(h)

Spec == Init /\ [][Next]_vars

-----------------------------------------------------------------------------
(* The patched transport primitives: window.fetch and XMLHttpRequest *)

\* The result of one call of a transport primitive.  kind is "resolve" or
\* "reject" for a fetch promise and "return" or "throw" for send; name is
\* the error's name and dom tells whether it is a DOMException.
Settled(kind) == [kind |-> kind, dom |-> FALSE, name |-> ""]
Failed(kind, dom, name) == [kind |-> kind, dom |-> dom, name |-> name]

\* extractAuraInfo(body, requestUrl).  A body is null (or not a string), a
\* string without message=, a message that does not decode or parse, a
\* message without a usable sql, or an Aura query message.
extractAuraInfo(body, requestUrl) ==
    IF body.kind = "aura"
    THEN Some([sql |-> body.sql, descriptor |-> body.descriptor,
               dataspace |-> body.dataspace, auraContext |-> body.context,
               auraToken |-> body.token, auraUrl |-> requestUrl])
    ELSE None

\* the request URL the patched fetch keeps for its first argument
FetchRequestUrl(arg) ==
    IF arg.kind \in {"string", "request"} THEN arg.url ELSE << >>

\* the URL the patched open keeps on the object
OpenRequestUrl(arg) == IF arg.kind = "string" THEN arg.url ELSE << >>

\* this._async as the patched open computes it: args[2] !== false
OpenAsync(asyncArg) == asyncArg # "false"

\* the flag after a request to url has been sent
ArmOnRequest(armed, url) ==
    armed \/ (IsToolingQuery(url) /\ IsColumnsPreflight(url))

\* what the caller of the patched fetch gets when _origFetch settles with r
FetchObserved(r) == r

\* the synchronous path of the patched send swallowing every DOMException
SendObservedAnyDOMException(async, r) ==
    IF ~async /\ r.kind = "throw" /\ r.dom THEN Settled("return") ELSE r

\* what the caller of the patched send gets when _origSend ends with r
SendObserved(async, r) ==
    IF ~async /\ r.kind = "throw" /\ r.dom /\ r.name = "NetworkError"
    THEN Settled("return")
    ELSE r

\* the smallest identity no live request object has
FreshId ==
    CHOOSE i \in 1..(Cardinality(opened \cup inflight) + 1) :
        /\ \A x \in opened \cup inflight : x.id # i
        /\ \A j \in 1..(i - 1) : \E x \in opened \cup inflight : x.id = j

\* a handler that reaches neither classifier
NoClassifier ==
    /\ shown' = << >>
    /\ soqlShown' = << >>
    /\ accs' = Collect(accs, store, timers, << >>)
    /\ UNCHANGED <<store, timers, calls, emitted>>

\* window.fetch(arg, init) when _origFetch settles with r
PatchedFetch(arg, body, r) ==
    LET requestUrl == FetchRequestUrl(arg)
        auraInfo == extractAuraInfo(body, requestUrl)
    IN  /\ requests' = requests + 1
        /\ toolingArmed' = ArmOnRequest(toolingArmed, requestUrl)
        /\ NoteRequest(requestUrl)
        /\ handled' = None
        /\ lastCall' = Some([api |-> "fetch", async |-> TRUE,
                             underlying |-> r, observed |-> FetchObserved(r)])
        /\ inflight' =
               IF r.kind = "resolve"
               THEN inflight \cup {[id |-> FreshId, api |-> "fetch",
                                    url |-> requestUrl, aura |-> auraInfo,
                                    auth |-> None]}
               ELSE inflight
        /\ NoClassifier
        /\ UNCHANGED opened
        /\ UNCHANGED runVars
        /\ UNCHANGED bgVars
        /\ UNCHANGED sqlVars
        /\ UNCHANGED soqlAuthHeader

\* the callbacks on response.clone().json() for the response resp: the body
\* parses to resp.parsed[1], or resp.parsed is None and the rejection is
\* caught
FetchBody(x, resp) ==
    /\ x \in inflight
    /\ x.api = "fetch"
    /\ inflight' = inflight \ {x}
    /\ IF resp.parsed = None
       THEN NoClassifier /\ UNCHANGED toolingArmed
       ELSE Classify(resp.parsed[1], x.url, x.aura)
    /\ NoteResponse(x.url, resp.parsed)
    /\ handled' = Some([url |-> x.url, resp |-> resp])
    /\ lastCall' = None
    /\ UNCHANGED <<opened, requests>>
    /\ UNCHANGED runVars
    /\ UNCHANGED bgVars
    /\ UNCHANGED sqlVars
    /\ UNCHANGED soqlAuthHeader

\* xhr.open(method, arg, asyncArg) on a new object
XhrOpen(arg, asyncArg) ==
    /\ requests' = requests + 1
    /\ opened' = opened \cup {[id |-> FreshId,
                               url |-> OpenRequestUrl(arg),
                               async |-> OpenAsync(asyncArg),
                               auth |-> None]}
    /\ NoClassifier
    /\ handled' = None
    /\ lastCall' = None
    /\ UNCHANGED <<toolingArmed, inflight, preflighted>>
    /\ UNCHANGED runVars
    /\ UNCHANGED bgVars
    /\ UNCHANGED sqlVars
    /\ UNCHANGED soqlAuthHeader

LitAuthorization == <<"a","u","t","h","o","r","i","z","a","t","i","o","n">>
LitServicesData == <<"/","s","e","r","v","i","c","e","s","/","d","a","t","a","/">>

\* name.toLowerCase()
toLowerCase(s) == [i \in 1..Len(s) |-> ToLower(s[i])]

\* the condition of the patched setRequestHeader on the object x
CapturesHeader(x, name) ==
    /\ toLowerCase(name) = LitAuthorization
    /\ \E i \in 1..Len(x.url) : MatchAt(x.url, i, LitServicesData)

\* _soqlAuthHeader after xhr.setRequestHeader(name, value) on the object x
HeaderAfterSet(x, name, value) ==
    IF CapturesHeader(x, name) THEN Some(value) ELSE soqlAuthHeader

\* xhr.setRequestHeader(name, value) on the opened object x; auth is the
\* Authorization header _origSetRequestHeader sets on the request
XhrSetRequestHeader(x, name, value) ==
    /\ x \in opened
    /\ soqlAuthHeader' = HeaderAfterSet(x, name, value)
    /\ opened' = IF toLowerCase(name) = LitAuthorization
                 THEN (opened \ {x}) \cup {[x EXCEPT !.auth = Some(value)]}
                 ELSE opened
    /\ NoClassifier
    /\ handled' = None
    /\ lastCall' = None
    /\ UNCHANGED <<toolingArmed, inflight, requests, preflighted>>
    /\ UNCHANGED runVars
    /\ UNCHANGED bgVars
    /\ UNCHANGED sqlVars

\* xhr.send(body) when _origSend ends with r
XhrSend(x, body, r) ==
    /\ x \in opened
    /\ opened' = opened \ {x}
    /\ lastCall' = Some([api |-> "send", async |-> x.async,
                         underlying |-> r,
                         observed |-> SendObserved(x.async, r)])
    /\ IF ~x.async
       THEN UNCHANGED <<toolingArmed, inflight>>
       ELSE /\ toolingArmed' = ArmOnRequest(toolingArmed, x.url)
            /\ inflight' =
                   IF r.kind = "return"
                   THEN inflight \cup
                            {[id |-> x.id, api |-> "xhr", url |-> x.url,
                              aura |-> extractAuraInfo(body, x.url),
                              auth |-> x.auth]}
                   ELSE inflight
    /\ NoteRequest(x.url)
    /\ handled' = None
    /\ NoClassifier
    /\ UNCHANGED requests
    /\ UNCHANGED runVars
    /\ UNCHANGED bgVars
    /\ UNCHANGED sqlVars
    /\ UNCHANGED soqlAuthHeader

\* the load listener of an asynchronous request, for the response resp,
\* but for what it does to the page
LoadListener(x, resp) ==
    /\ x \in inflight
    /\ x.api = "xhr"
    /\ inflight' = inflight \ {x}
    /\ IF resp.status < 200 \/ resp.status >= 300
       THEN NoClassifier /\ UNCHANGED toolingArmed
       ELSE IF ~resp.json
       THEN NoClassifier /\ UNCHANGED toolingArmed
       ELSE IF resp.parsed = None
       THEN NoClassifier /\ UNCHANGED toolingArmed
       ELSE Classify(resp.parsed[1], x.url, x.aura)
    /\ NoteResponse(x.url, resp.parsed)
    /\ handled' = Some([url |-> x.url, resp |-> resp])
    /\ lastCall' = None
    /\ UNCHANGED <<opened, requests>>
    /\ UNCHANGED bgVars
    /\ UNCHANGED sqlVars
    /\ UNCHANGED soqlAuthHeader

\* the load listener, the page left aside
XhrLoad(x, resp) == LoadListener(x, resp) /\ UNCHANGED runVars

(* Inputs of the transport model *)

UrlSoql == <<"/","s","e","r","v","i","c","e","s","/","d","a","t","a","/","q","u","e","r","y","?","q","=","a">>
UrlLocator == <<"/","s","e","r","v","i","c","e","s","/","d","a","t","a","/","q","u","e","r","y","/","0","1","g","-","2","0","0","0">>
UrlTooling == <<"/","s","e","r","v","i","c","e","s","/","d","a","t","a","/","t","o","o","l","i","n","g","/","q","u","e","r","y","/","?","q","=","a">>
UrlToolingPreflight == UrlTooling \o <<"&">> \o LitColumnsTrue

RequestArgs ==
    {[kind |-> "string", url |-> u] :
        u \in {UrlAura, UrlTooling, UrlToolingPreflight}}
        \cup {[kind |-> "request", url |-> UrlSoql],
              [kind |-> "other", url |-> << >>]}

NoBody ==
    [kind |-> "null", sql |-> << >>, descriptor |-> "", dataspace |-> "",
     context |-> None, token |-> None]
MalformedBody == [NoBody EXCEPT !.kind = "malformed"]
AuraBody ==
    [kind |-> "aura", sql |-> AuraA.sql, descriptor |-> AuraA.descriptor,
     dataspace |-> AuraA.dataspace, context |-> AuraA.auraContext,
     token |-> AuraA.auraToken]
\* the bodies sent to a URL: only the Aura endpoint is sent Aura messages
BodiesFor(url) ==
    IF url = UrlAura THEN {NoBody, MalformedBody, AuraBody} ELSE {NoBody}

AsyncArgs == {"undefined", "true", "false", "0"}

FetchResults == {Settled("resolve"), Failed("reject", FALSE, "TypeError")}
SendResults ==
    {Settled("return"),
     Failed("throw", TRUE, "NetworkError"),
     Failed("throw", TRUE, "InvalidStateError"),
     Failed("throw", FALSE, "NetworkError")}

\* a REST query response with n records
SoqlData(n, total, done, next) ==
    [rv |-> None, records |-> Some(n), totalSize |-> Some(total),
     done |-> Some(done), nextRecordsUrl |-> next]

\* a response: its status, whether its content-type names json, and what
\* its body parses to (None when it is not JSON)
Response(status, json, parsed) ==
    [status |-> status, json |-> json, parsed |-> parsed]

LimitedSoql == SoqlData(2000, 5000, FALSE, Some(UrlLocator))

Responses ==
    {Response(200, TRUE, p) :
        p \in {None, Some(NotAQuery), Some(DataOf(FirstPage)),
               Some(SoqlData(2, 2, TRUE, None)), Some(LimitedSoql)}}
        \cup {Response(500, TRUE, Some(LimitedSoql)),
              Response(200, FALSE, Some(LimitedSoql))}

NextTransport ==
    \/ /\ requests < MaxRequests
       /\ \E arg \in RequestArgs, r \in FetchResults :
              \E body \in BodiesFor(arg.url) : PatchedFetch(arg, body, r)
    \/ \E x \in inflight, resp \in Responses : FetchBody(x, resp)
    \/ /\ requests < MaxRequests
       /\ \E arg \in RequestArgs, a \in AsyncArgs : XhrOpen(arg, a)
    \/ \E x \in opened, r \in SendResults :
           \E body \in BodiesFor(x.url) : XhrSend(x, body, r)
    \/ \E x \in inflight, resp \in Responses : XhrLoad(x, resp)
    \/ \E h \in DOMAIN timers : Fire(h)

SpecTransport == Init /\ [][NextTransport]_vars

-----------------------------------------------------------------------------
(* Specification of the REST query classifier: requests to the REST and     *)
(* Tooling API query endpoints, their preflights and continuations, issued  *)
(* through either primitive and answered in any order.                      *)

MaxSoqlRequests == 3

SoqlUrls == {UrlSoql, UrlTooling, UrlToolingPreflight, UrlLocator}

\* the requests made through XMLHttpRequest: the Tooling API requests and
\* the continuation request
XhrSoqlUrls == {UrlTooling, UrlToolingPreflight, UrlLocator}

EmptySoql == SoqlData(0, 0, TRUE, None)

SoqlResponses ==
    {Response(200, TRUE, p) : p \in {Some(EmptySoql), Some(LimitedSoql)}}

StringArg(u) == [kind |-> "string", url |-> u]

NextSoql ==
    \/ /\ requests < MaxSoqlRequests
       /\ \E u \in SoqlUrls :
              PatchedFetch(StringArg(u), NoBody, Settled("resolve"))
    \/ \E x \in inflight, resp \in SoqlResponses : FetchBody(x, resp)
    \/ /\ requests < MaxSoqlRequests
       /\ \E u \in XhrSoqlUrls : XhrOpen(StringArg(u), "true")
    \/ \E x \in opened : XhrSend(x, NoBody, Settled("return"))
    \/ \E x \in inflight, resp \in SoqlResponses : XhrLoad(x, resp)

SpecSoql == Init /\ [][NextSoql]_vars

-----------------------------------------------------------------------------
(* The reconstruction runs: fetchAllRows and fetchAllSoqlRows, started from *)
(* the "Fetch all" button of a notification                                 *)

BATCH == 49999

MaxPages == 3
MaxRuns == 2

\* one entry of the log
Event(ev, a, b) ==
    [ev |-> ev, a |-> a, b |-> b, msg |-> "", url |-> << >>, acc |-> None]
\* the message of an onError call: its fixed text and, for `Server error
\* ${resp.status}`, the status that follows it (0 otherwise)
Message(text) == [text |-> text, status |-> 0]

\* mutant of ServerError: 401 and 403 get a message of their own
ServerErrorByClass(status) ==
    [text |-> IF status \in {401, 403} THEN "Authentication error"
              ELSE "Server error",
     status |-> status]
ServerError(status) == [text |-> "Server error", status |-> status]
ErrorEvent(message) ==
    [Event("error", message.status, 0) EXCEPT !.msg = message.text]
\* the page request req has been handed to _origFetch as the n-th of its run
RequestEvent(n, req) == [Event("request", n, req.offset) EXCEPT !.url = req.url]

\* the notification showToast(acc) / showSoqlToast(data) puts on the page
\* auth is history: the Authorization header of the request whose response
\* the notification was shown for, where the model follows that request.
\* closing holds the callbacks animateClose has registered for animationend
\* and removed tells that host.remove() has run.
AuraToast(acc) ==
    [variant |-> "aura", of |-> acc, controls |-> "enabled",
     fetchAll |-> CanFetchAll(acc), auth |-> None,
     closing |-> {}, removed |-> FALSE]
SoqlToast(data) ==
    [variant |-> "soql", of |-> data, controls |-> "enabled",
     fetchAll |-> ShowSoqlToast(data).canFetchAll, auth |-> None,
     closing |-> {}, removed |-> FALSE]

\* if (auraInfo.auraContext) / if (auraInfo.auraToken): the body part of a
\* correlation token, absent when nothing (or an empty value) was captured
BodyPart(token) == IF token # None /\ token[1] # "" THEN token ELSE None

\* the page request fetchAllRows hands to _origFetch: the URL, the action of
\* the message and the two correlation tokens of the body.  offset and page
\* are the locals the request was built from.
AuraRequest(auraInfo, pageNum, offset) ==
    [url |-> auraInfo.auraUrl,
     descriptor |-> auraInfo.descriptor,
     sql |-> PaginatedSql(stripLimitOffset(auraInfo.sql), BATCH, offset),
     rowLimit |-> BATCH,
     dataspace |-> auraInfo.dataspace,
     context |-> BodyPart(auraInfo.auraContext),
     token |-> BodyPart(auraInfo.auraToken),
     limit |-> BATCH, offset |-> offset, page |-> pageNum]

\* mutant of AuraLocals: the run starts at the rows the notification has
AuraLocalsResuming(acc) ==
    [variant |-> "aura",
     allRows |-> << >>,
     allMetadata |-> acc.metadata,
     offset |-> acc.returnedRows,
     totalRows |-> IF acc.totalRows.inf THEN None ELSE Some(acc.totalRows.n),
     pageNum |-> 0,
     currentNextUrl |-> None]

\* the local variables of fetchAllRows before the loop
AuraLocals(acc) ==
    [variant |-> "aura",
     allRows |-> << >>,
     allMetadata |-> acc.metadata,
     offset |-> 0,
     totalRows |-> IF acc.totalRows.inf THEN None ELSE Some(acc.totalRows.n),
     pageNum |-> 0,
     currentNextUrl |-> None]

\* mutant of MissingAuraContext: the request URL is not looked at
MissingAuraContextSqlOnly(auraInfo) ==
    \/ auraInfo = None
    \/ auraInfo[1].sql = << >>

\* !auraInfo?.auraUrl || !auraInfo?.sql
MissingAuraContext(auraInfo) ==
    \/ auraInfo = None
    \/ auraInfo[1].auraUrl = << >>
    \/ auraInfo[1].sql = << >>

\* the message of the onError call an Aura page outcome leads to, if any
AuraFailure(o) ==
    IF o.kind = "reject" THEN Some(Message("Network error"))
    ELSE IF o.status < 200 \/ o.status >= 300 THEN Some(ServerError(o.status))
    ELSE IF o.kind = "notjson" THEN Some(Message("Failed to parse response as JSON"))
    ELSE IF o.kind = "noaction" THEN Some(Message("Aura request failed"))
    ELSE IF o.kind = "auraerror" THEN Some(Message("Aura error"))
    ELSE IF o.kind \in {"norv", "norows"}
         THEN Some(Message("Unexpected response structure"))
    ELSE None

\* mutant of AuraMerge: the offset counts the pages, not their rows
AuraMergeCountingPages(r, o) ==
    [r EXCEPT
        !.allMetadata = IF ~Truthy(@) /\ Truthy(o.md) THEN o.md ELSE @,
        !.totalRows = IF o.rowCount # None THEN o.rowCount ELSE @,
        !.allRows = PushRows(@, o.rows, r.pageNum),
        !.offset = r.pageNum]

\* the locals after the page of outcome o has been merged
AuraMerge(r, o) ==
    [r EXCEPT
        !.allMetadata = IF ~Truthy(@) /\ Truthy(o.md) THEN o.md ELSE @,
        !.totalRows = IF o.rowCount # None THEN o.rowCount ELSE @,
        !.allRows = PushRows(@, o.rows, r.pageNum),
        !.offset = @ + o.rows]

\* mutant of AuraBreaks: the total is not looked at
AuraBreaksOnShortPageOnly(r, o) == o.rows < BATCH \/ o.rows = 0

\* the break condition of the loop, on the merged locals r and the page o
AuraBreaks(r, o) ==
    \/ o.rows < BATCH
    \/ (r.totalRows # None /\ RowsLen(r.allRows) >= r.totalRows[1])
    \/ o.rows = 0

\* mutant of Abort: the return after onError is missing, so the outer catch
\* reports the failure of the next statement as well
AbortTwice(events, message) ==
    Append(Append(events, ErrorEvent(message)), ErrorEvent(Message("Unexpected error")))

\* onError(message); return
Abort(events, message) == Append(events, ErrorEvent(message))

\* mutant of OutstandingAfter: the settled request stays outstanding
OutstandingKept(p) == pending

\* the outstanding page requests once the awaited request p has settled
OutstandingAfter(p) == pending \ {p}

\* the onError handler of the notification: the controls are enabled again
ControlsAfterError(t) == [t EXCEPT !.controls = "enabled"]

\* mutant of RunFrame: the page requests go through the patched fetch, and
\* the gate is armed as for any request
RunFrameThroughPatch ==
    /\ toolingArmed' = TRUE
    /\ UNCHANGED <<store, accs, timers, shown, soqlShown, calls,
                   opened, inflight, requests, preflighted, handled, lastCall,
                   session, badge, jobs, received, soqlAuthHeader,
                capturedSql, strippedSql, emitted>>

\* the frame of a step of a run: _origFetch bypasses the patched fetch, so
\* the interceptor's state is left alone
RunFrame ==
    UNCHANGED <<store, accs, timers, shown, soqlShown, calls, toolingArmed,
                opened, inflight, requests, preflighted, handled, lastCall,
                session, badge, jobs, received, soqlAuthHeader,
                capturedSql, strippedSql, emitted>>

\* mutant of FullAcc: the rows the notification has come first
FullAccOverHeldRows(acc, allRows, metadata) ==
    [queryId |-> acc.queryId,
     dataRows |-> acc.dataRows \o allRows,
     metadata |-> metadata,
     returnedRows |-> RowsLen(acc.dataRows \o allRows),
     totalRows |-> Finite(RowsLen(acc.dataRows \o allRows))]

\* fullAcc, the result the onDone handler of showToast hands to
\* triggerDownload
FullAcc(acc, allRows, metadata) ==
    [queryId |-> acc.queryId,
     dataRows |-> allRows,
     metadata |-> metadata,
     returnedRows |-> RowsLen(allRows),
     totalRows |-> Finite(RowsLen(allRows))]

\* onDone(allRows, allMetadata ?? acc.metadata) of fetchAllRows: undefined
\* is the nullish metadata value
DoneEvent(acc, r) ==
    [Event("done", RowsLen(r.allRows), 0) EXCEPT
        !.acc = Some(FullAcc(acc, r.allRows,
                             IF r.allMetadata = MdUndefined THEN acc.metadata
                             ELSE r.allMetadata))]

\* the click handler of the "Fetch all" button of an Aura notification, up
\* to the first await of fetchAllRows
ClickFetchAllAura ==
    /\ RunFrame
    /\ toast # None
    /\ toast[1].variant = "aura"
    /\ toast[1].fetchAll
    /\ toast[1].controls = "enabled"
    /\ ~toast[1].removed
    /\ run = None
    /\ LET acc == toast[1].of
           clicked == Append(log, Event("click", 0, 0))
       IN  IF MissingAuraContext(acc.auraInfo)
           THEN /\ log' = Abort(clicked, Message("Missing Aura context"))
                /\ toast' = Some(ControlsAfterError(toast[1]))
                /\ UNCHANGED <<run, pending>>
           ELSE LET r == [AuraLocals(acc) EXCEPT !.pageNum = 1]
                    req == AuraRequest(acc.auraInfo[1], r.pageNum, r.offset)
                IN  /\ run' = Some(r)
                    /\ pending' = pending \cup {req}
                    /\ log' = Append(clicked, RequestEvent(1, req))
                    /\ toast' = Some([toast[1] EXCEPT !.controls = "locked"])

\* fetchAllRows resumes when the page request p settles with outcome o, and
\* runs to its next await or to its end
AuraPageArrives(p, o) ==
    /\ RunFrame
    /\ run # None
    /\ run[1].variant = "aura"
    /\ p \in pending
    /\ LET r == run[1]
           failure == AuraFailure(o)
           m == AuraMerge(r, o)
           fetched == RowsLen(m.allRows)
           reported ==
               Append(log, Event("progress", fetched,
                                 IF m.totalRows # None THEN m.totalRows[1]
                                 ELSE fetched))
       IN  IF failure # None
           THEN /\ log' = Abort(log, failure[1])
                /\ toast' = Some(ControlsAfterError(toast[1]))
                /\ run' = None
                /\ pending' = OutstandingAfter(p)
           ELSE IF AuraBreaks(m, o)
           THEN /\ log' = Append(reported, DoneEvent(toast[1].of, m))
                /\ toast' = Some([toast[1] EXCEPT !.controls = "closed"])
                /\ run' = None
                /\ pending' = OutstandingAfter(p)
           ELSE LET n == [m EXCEPT !.pageNum = @ + 1]
                    acc == toast[1].of
                    req == AuraRequest(acc.auraInfo[1], n.pageNum, n.offset)
                IN  /\ log' = Append(reported, RequestEvent(n.pageNum, req))
                    /\ run' = Some(n)
                    /\ pending' = OutstandingAfter(p) \cup {req}
                    /\ UNCHANGED toast

\* _soqlAuthHeader ? { Authorization: _soqlAuthHeader } : undefined
Headers(header) == IF header # None /\ header[1] # "" THEN header ELSE None

\* the page request fetchAllSoqlRows hands to _origFetch: the URL and the
\* Authorization header, if any
SoqlRequest(nextUrl) ==
    [url |-> nextUrl, limit |-> 0, offset |-> 0, page |-> 0,
     auth |-> Headers(soqlAuthHeader)]

\* the local variables of fetchAllSoqlRows before the loop
SoqlLocals(data) ==
    [variant |-> "soql",
     allRows |-> PushRows(<< >>, data.records[1], 0),
     allMetadata |-> MdUndefined,
     offset |-> 0,
     totalRows |-> data.totalSize,
     pageNum |-> 0,
     currentNextUrl |-> data.nextRecordsUrl]

\* while (currentNextUrl)
TruthyUrl(u) == u # None /\ u[1] # << >>

\* the message of the onError call a REST page outcome leads to, if any; a
\* body that parses to null makes page.records throw in the loop
SoqlFailure(o) ==
    IF o.kind = "reject" THEN Some(Message("Network error"))
    ELSE IF o.status < 200 \/ o.status >= 300 THEN Some(ServerError(o.status))
    ELSE IF o.kind = "notjson" THEN Some(Message("Failed to parse response as JSON"))
    ELSE IF o.kind = "null" THEN Some(Message("Unexpected error"))
    ELSE None

\* mutant of SoqlMerge: the records of the page replace those held so far
SoqlMergeReplacing(r, o) ==
    [r EXCEPT
        !.pageNum = @ + 1,
        !.allRows = PushRows(<< >>, IF o.records # None THEN o.records[1] ELSE 0,
                             r.pageNum + 1),
        !.currentNextUrl = IF o.done # None /\ o.done[1] THEN None ELSE o.next]

\* the locals after the page of outcome o has been merged
SoqlMerge(r, o) ==
    [r EXCEPT
        !.pageNum = @ + 1,
        !.allRows = PushRows(@, IF o.records # None THEN o.records[1] ELSE 0,
                             r.pageNum + 1),
        !.currentNextUrl = IF o.done # None /\ o.done[1] THEN None ELSE o.next]

\* the click handler of the "Fetch all" button of a REST notification, up to
\* the first await of fetchAllSoqlRows
ClickFetchAllSoql ==
    /\ RunFrame
    /\ toast # None
    /\ toast[1].variant = "soql"
    /\ toast[1].fetchAll
    /\ toast[1].controls = "enabled"
    /\ ~toast[1].removed
    /\ run = None
    /\ LET data == toast[1].of
           r == SoqlLocals(data)
           reported ==
               Append(Append(log, Event("click", 0, 0)),
                      Event("progress", RowsLen(r.allRows), data.totalSize[1]))
       IN  IF TruthyUrl(r.currentNextUrl)
           THEN /\ run' = Some(r)
                /\ pending' = pending \cup {SoqlRequest(r.currentNextUrl[1])}
                /\ log' = Append(reported,
                      RequestEvent(1, SoqlRequest(r.currentNextUrl[1])))
                /\ toast' = Some([toast[1] EXCEPT !.controls = "locked"])
           ELSE /\ log' = Append(reported,
                                 Event("done", RowsLen(r.allRows), 0))
                /\ toast' = Some([toast[1] EXCEPT !.controls = "closed"])
                /\ UNCHANGED <<run, pending>>

\* fetchAllSoqlRows resumes when the page request p settles with outcome o,
\* and runs to its next await or to its end
SoqlPageArrives(p, o) ==
    /\ RunFrame
    /\ run # None
    /\ run[1].variant = "soql"
    /\ p \in pending
    /\ LET r == run[1]
           failure == SoqlFailure(o)
           m == SoqlMerge(r, o)
           fetched == RowsLen(m.allRows)
           reported ==
               Append(log, Event("progress", fetched, m.totalRows[1]))
       IN  IF failure # None
           THEN /\ log' = Abort(log, failure[1])
                /\ toast' = Some(ControlsAfterError(toast[1]))
                /\ run' = None
                /\ pending' = OutstandingAfter(p)
           ELSE IF TruthyUrl(m.currentNextUrl)
           THEN /\ log' = Append(reported,
                      RequestEvent(m.pageNum + 1,
                                   SoqlRequest(m.currentNextUrl[1])))
                /\ run' = Some(m)
                /\ pending' = OutstandingAfter(p) \cup
                                  {SoqlRequest(m.currentNextUrl[1])}
                /\ UNCHANGED toast
           ELSE /\ log' = Append(reported, Event("done", fetched, 0))
                /\ toast' = Some([toast[1] EXCEPT !.controls = "closed"])
                /\ run' = None
                /\ pending' = OutstandingAfter(p)

\* showToast / showSoqlToast puts the notification t on the page
Notify(t) ==
    /\ RunFrame
    /\ toast = None
    /\ toast' = Some(t)
    /\ UNCHANGED <<run, pending, log>>

(* Inputs of the reconstruction runs *)

\* the accumulator showToast is given when the timer flushes the first page
\* of exchange e
FlushedAcc(e) ==
    LET payload == unwrapPayload(DataOf(e))
        total == PageTotalRows(payload)
    IN  [MergePage(NewAccumulator(e.qid[1], payload, total, e.aura),
                   payload, total, e.aura, 1) EXCEPT !.flushTimer = 1]

CappedPage(total, md, aura) ==
    [PlainPage EXCEPT !.total = Some(total), !.md = md, !.aura = aura]

AuraNoUrl == [AuraA EXCEPT !.auraUrl = << >>]

RunToasts ==
    {AuraToast(FlushedAcc(e)) :
        e \in {CappedPage(125000, MdCols5, Some(AuraA)),
               CappedPage(99998, MdUndefined, Some(AuraA)),
               CappedPage(25002, MdCols5, Some(AuraB)),
               CappedPage(125000, MdCols5, Some(AuraNoUrl)),
               CappedPage(125000, MdCols5, None),
               CappedPage(1000, MdCols5, Some(AuraA)),
               [PlainPage EXCEPT !.md = MdCols5, !.aura = Some(AuraA)]}}
        \cup {SoqlToast(d) :
                 d \in {LimitedSoql,
                        SoqlData(2, 2, TRUE, None),
                        SoqlData(2000, 5000, TRUE, Some(UrlLocator)),
                        SoqlData(2000, 5000, FALSE, None)}}

\* what a page request of fetchAllRows can settle with
AuraOutcome(kind, status, rows, rowCount, md) ==
    [kind |-> kind, status |-> status, rows |-> rows, rowCount |-> rowCount,
     md |-> md]

AuraOutcomes ==
    {AuraOutcome(k, 200, 0, None, MdUndefined) :
        k \in {"reject", "notjson", "noaction", "auraerror", "norv",
               "norows"}}
        \cup {AuraOutcome("page", 500, 0, None, MdUndefined)}
        \cup {AuraOutcome("page", 200, n, rc, MdColsB) :
                 n \in {0, 25002, BATCH}, rc \in {None, Some(125000)}}

UrlLocator4000 == <<"/","s","e","r","v","i","c","e","s","/","d","a","t","a","/","q","u","e","r","y","/","0","1","g","-","4","0","0","0">>

\* what a page request of fetchAllSoqlRows can settle with
SoqlOutcome(kind, status, records, done, next) ==
    [kind |-> kind, status |-> status, records |-> records, done |-> done,
     next |-> next]

SoqlOutcomes ==
    {SoqlOutcome(k, 200, None, None, None) :
        k \in {"reject", "notjson", "null", "page"}}
        \cup {SoqlOutcome("page", 500, None, None, None)}
        \cup {SoqlOutcome("page", 200, Some(n), Some(d), nx) :
                 n \in {0, 2000}, d \in BOOLEAN,
                 nx \in {None, Some(UrlLocator4000)}}

\* the events of the log since the last click
RunEvents ==
    LET clicks == {i \in 1..Len(log) : log[i].ev = "click"}
    IN  IF clicks = {} THEN << >>
        ELSE LET from == CHOOSE i \in clicks : \A j \in clicks : j <= i
             IN  SubSeq(log, from, Len(log))

Count(events, ev) == Cardinality({i \in 1..Len(events) : events[i].ev = ev})

\* the run goes on to another page request after the outcome o
AuraContinues(o) ==
    /\ run # None
    /\ AuraFailure(o) = None
    /\ ~AuraBreaks(AuraMerge(run[1], o), o)
SoqlContinues(o) ==
    /\ run # None
    /\ SoqlFailure(o) = None
    /\ TruthyUrl(SoqlMerge(run[1], o).currentNextUrl)

\* a run is cut off before it issues more than MaxPages page requests
PagesLeft == Count(RunEvents, "request") < MaxPages

NextRun ==
    \/ \E t \in RunToasts : Notify(t)
    \/ Count(log, "click") < MaxRuns /\ ClickFetchAllAura
    \/ \E p \in pending, o \in AuraOutcomes :
           (AuraContinues(o) => PagesLeft) /\ AuraPageArrives(p, o)
    \/ Count(log, "click") < MaxRuns /\ ClickFetchAllSoql
    \/ \E p \in pending, o \in SoqlOutcomes :
           (SoqlContinues(o) => PagesLeft) /\ SoqlPageArrives(p, o)

SpecRun == Init /\ [][NextRun]_vars

-----------------------------------------------------------------------------
(* The runs of fetchAllSoqlRows on a page whose XMLHttpRequest objects set  *)
(* request headers: the notification comes from the response to one of the  *)
(* page's requests, and other requests are opened before and during the run *)

MaxAuthRequests == 2
MaxPageRuns == 1

HeaderNames ==
    {<<"A","u","t","h","o","r","i","z","a","t","i","o","n">>,
     <<"A","c","c","e","p","t">>}
HeaderValues == {"Bearer A", "Bearer B"}
AuthUrls == {UrlSoql, UrlAura}

\* the responses to a request to url: a limited REST query result, or what
\* the Aura endpoint answers a request without a message
AuthResponses(url) ==
    IF url = UrlSoql THEN {Response(200, TRUE, Some(LimitedSoql))}
    ELSE {Response(200, TRUE, Some(NotAQuery))}

\* what a page request of the run settles with: the next page and a
\* locator, the last page, or a refusal
AuthOutcomes ==
    {SoqlOutcome("page", 200, Some(2000), Some(FALSE), Some(UrlLocator4000)),
     SoqlOutcome("page", 200, Some(2000), Some(TRUE), None),
     SoqlOutcome("page", 401, None, None, None)}

\* the notification on the page after a handler whose request set the
\* Authorization header auth: the one of its last showToast / showSoqlToast
\* call (processSoqlResponse runs after processResponse), or the one that
\* was there
ToastAfter(auth) ==
    IF soqlShown' # << >>
    THEN Some([SoqlToast(soqlShown'[1].data) EXCEPT !.auth = auth])
    ELSE IF shown' # << >>
    THEN Some(AuraToast(shown'[Len(shown')].acc))
    ELSE toast

\* the load listener and the notification it puts on the page
XhrLoadOnPage(x, resp) ==
    /\ LoadListener(x, resp)
    /\ toast' = ToastAfter(x.auth)
    /\ UNCHANGED <<run, pending, log>>

\* the timer h fires and its callback puts the notification on the page
FireOnPage(h) ==
    /\ TimerFires(h)
    /\ toast' = ToastAfter(None)
    /\ UNCHANGED <<run, pending, log>>

\* a header name is set once on an object, and no response is delivered
\* while a run is in progress
NextAuth ==
    \/ /\ requests < MaxAuthRequests
       /\ \E u \in AuthUrls : XhrOpen(StringArg(u), "true")
    \/ \E x \in opened, name \in HeaderNames, value \in HeaderValues :
           x.auth = None /\ XhrSetRequestHeader(x, name, value)
    \/ \E x \in opened : XhrSend(x, NoBody, Settled("return"))
    \/ /\ run = None
       /\ \E x \in inflight :
              \E resp \in AuthResponses(x.url) : XhrLoadOnPage(x, resp)
    \/ Count(log, "click") < MaxPageRuns /\ ClickFetchAllSoql
    \/ \E p \in pending, o \in AuthOutcomes :
           (SoqlContinues(o) => PagesLeft) /\ SoqlPageArrives(p, o)

SpecAuth == Init /\ [][NextAuth]_vars

-----------------------------------------------------------------------------
(* The runs of both variants on a page whose requests go through the        *)
(* patched XMLHttpRequest: data tab queries and REST queries are sent and    *)
(* answered before the run, and sent during it                               *)

MaxPageRequests == 2

PageUrls == {UrlAura, UrlSoql}

\* the body sent to url: the Aura endpoint is sent the query message
PageBody(url) == IF url = UrlAura THEN AuraBody ELSE NoBody

\* the response to a request to url: the first page of a capped data tab
\* result, a limited REST query result, or no query result
PageResponse(url) ==
    IF url = UrlAura
    THEN Response(200, TRUE,
                  Some(DataOf(CappedPage(125000, MdCols5, Some(AuraA)))))
    ELSE IF url = UrlSoql THEN Response(200, TRUE, Some(LimitedSoql))
    ELSE Response(200, TRUE, Some(NotAQuery))

\* what a page request of fetchAllRows settles with: a full page, the last
\* page, a rejection, a non-success status, or a body that is not JSON or
\* has no rows
PageOutcomes ==
    {AuraOutcome("page", 200, BATCH, Some(125000), MdColsB),
     AuraOutcome("page", 200, 25002, None, MdColsB)}
        \cup {AuraOutcome(k, 200, 0, None, MdUndefined) :
                 k \in {"reject", "notjson", "norows"}}
        \cup {AuraOutcome("page", st, 0, None, MdUndefined) :
                 st \in {401, 403, 500}}

\* what a page request of fetchAllSoqlRows settles with, likewise
RestOutcomes ==
    AuthOutcomes
        \cup {SoqlOutcome(k, 200, None, None, None) :
                 k \in {"reject", "notjson"}}
        \cup {SoqlOutcome("page", st, None, None, None) : st \in {403, 500}}

\* no response is delivered and no timer fires while a run is in progress
NextPage ==
    \/ /\ requests < MaxPageRequests
       /\ \E u \in PageUrls : XhrOpen(StringArg(u), "true")
    \/ \E x \in opened : XhrSend(x, PageBody(x.url), Settled("return"))
    \/ /\ run = None
       /\ \E x \in inflight : XhrLoadOnPage(x, PageResponse(x.url))
    \/ run = None /\ \E h \in DOMAIN timers : FireOnPage(h)
    \/ Count(log, "click") < MaxPageRuns /\ ClickFetchAllAura
    \/ \E p \in pending, o \in PageOutcomes :
           (AuraContinues(o) => PagesLeft) /\ AuraPageArrives(p, o)
    \/ Count(log, "click") < MaxPageRuns /\ ClickFetchAllSoql
    \/ \E p \in pending, o \in RestOutcomes :
           (SoqlContinues(o) => PagesLeft) /\ SoqlPageArrives(p, o)

SpecPage == Init /\ [][NextPage]_vars

-----------------------------------------------------------------------------
(* The background worker: the per-tab counter in chrome.storage.session and *)
(* the toolbar badge.  Every listener call starts an asynchronous job whose *)
(* storage and badge operations interleave with those of the other jobs.    *)

\* a tab id is falsy: sender.tab is missing, or the id is 0
FalsyTab(tab) == tab = None \/ tab[1] = 0

\* getCount: result[key] ?? 0
getCount(tabId) == IF tabId \in DOMAIN session THEN session[tabId] ELSE 0

\* the text updateBadge puts on the badge
BadgeText(count) == IF count > 0 THEN Decimal(count) ELSE << >>

\* a job of the worker: what started it, for which tab, its next operation
\* and the count it holds
Job(kind, tabId, pc, count) ==
    [kind |-> kind, tab |-> tabId, pc |-> pc, count |-> count]

BgFrame ==
    UNCHANGED <<store, accs, timers, shown, soqlShown, calls, toolingArmed,
                opened, inflight, requests, preflighted, handled, lastCall,
                toast, run, pending, log, soqlAuthHeader,
                capturedSql, strippedSql, emitted>>

\* the onMessage listener receives QUERY_READY from a sender
OnQueryReady(senderTab) ==
    /\ BgFrame
    /\ received' = received + 1
    /\ jobs' = IF FalsyTab(senderTab) THEN jobs
               ELSE MapPut(jobs, received + 1,
                           Job("ready", senderTab[1], "get", 0))
    /\ UNCHANGED <<session, badge>>

\* the onMessage listener receives GET_COUNT for message.tabId
OnGetCount(tabId) ==
    /\ BgFrame
    /\ received' = received + 1
    /\ jobs' = MapPut(jobs, received + 1,
                      IF FalsyTab(tabId) THEN Job("count", 0, "done", 0)
                      ELSE Job("count", tabId[1], "get", 0))
    /\ UNCHANGED <<session, badge>>

\* tabs.onUpdated(tabId, changeInfo)
OnUpdated(tabId, loading, hasUrl) ==
    /\ BgFrame
    /\ received' = received + 1
    /\ jobs' = IF loading /\ hasUrl
               THEN MapPut(jobs, received + 1, Job("clear", tabId, "remove", 0))
               ELSE jobs
    /\ UNCHANGED <<session, badge>>

\* tabs.onRemoved(tabId)
OnRemoved(tabId) ==
    /\ BgFrame
    /\ received' = received + 1
    /\ jobs' = MapPut(jobs, received + 1, Job("clear", tabId, "remove", 0))
    /\ UNCHANGED <<session, badge>>

\* the job after chrome.storage.session.get has answered: the QUERY_READY
\* handler goes on to setCount(count + 1), GET_COUNT sends its response
StorageGot(j) ==
    LET job == jobs[j]
    IN  IF job.kind = "ready"
        THEN [job EXCEPT !.pc = "set", !.count = getCount(job.tab) + 1]
        ELSE [job EXCEPT !.pc = "done", !.count = getCount(job.tab)]

\* chrome.storage.session.get of job j is served
StorageGet(j) ==
    /\ BgFrame
    /\ j \in DOMAIN jobs
    /\ jobs[j].pc = "get"
    /\ jobs' = [jobs EXCEPT ![j] = StorageGot(j)]
    /\ UNCHANGED <<session, badge, received>>

\* chrome.storage.session.set of job j is served
StorageSet(j) ==
    /\ BgFrame
    /\ j \in DOMAIN jobs
    /\ jobs[j].pc = "set"
    /\ session' = MapPut(session, jobs[j].tab, jobs[j].count)
    /\ jobs' = [jobs EXCEPT ![j].pc = "badge"]
    /\ UNCHANGED <<badge, received>>

\* chrome.storage.session.remove of job j is served
StorageRemove(j) ==
    /\ BgFrame
    /\ j \in DOMAIN jobs
    /\ jobs[j].pc = "remove"
    /\ session' = [t \in DOMAIN session \ {jobs[j].tab} |-> session[t]]
    /\ jobs' = [jobs EXCEPT ![j].pc = "badge"]
    /\ UNCHANGED <<badge, received>>

\* chrome.action.setBadgeText of job j is served: updateBadge(tabId, count)
\* or the empty text of clearTab
SetBadgeText(j) ==
    /\ BgFrame
    /\ j \in DOMAIN jobs
    /\ jobs[j].pc = "badge"
    /\ badge' = MapPut(badge, jobs[j].tab,
                       IF jobs[j].kind = "clear" THEN << >>
                       ELSE BadgeText(jobs[j].count))
    /\ jobs' = [jobs EXCEPT ![j].pc = "done"]
    /\ UNCHANGED <<session, received>>

\* Inputs of the worker
TabIds == {1, 2}
SenderTabs == {None, Some(0)} \cup {Some(t) : t \in TabIds}

NextBg ==
    \/ received < MaxEvents /\ \E s \in SenderTabs : OnQueryReady(s)
    \/ received < MaxEvents /\ \E s \in SenderTabs : OnGetCount(s)
    \/ received < MaxEvents /\
          \E t \in TabIds, loading \in BOOLEAN, hasUrl \in BOOLEAN :
              OnUpdated(t, loading, hasUrl)
    \/ received < MaxEvents /\ \E t \in TabIds : OnRemoved(t)
    \/ \E j \in DOMAIN jobs : StorageGet(j)
    \/ \E j \in DOMAIN jobs : StorageSet(j)
    \/ \E j \in DOMAIN jobs : StorageRemove(j)
    \/ \E j \in DOMAIN jobs : SetBadgeText(j)

SpecBg == Init /\ [][NextBg]_vars

-----------------------------------------------------------------------------
(* Claims about the accumulator store *)

\* the accumulators of the store
Live == {accs[store[q]] : q \in DOMAIN store}
\* the showToast calls of the last handler
Toasts == {shown[i] : i \in 1..Len(shown)}
\* the showToast calls of the last handler for an accumulated query
Flushed == {t \in Toasts : t.site \in {"complete", "timer"}}

\* C1: the rows sequence of every accumulator of the store, and of every
\* accumulator handed to showToast, is as long as its returnedRows says.
C1_RowsLengthIsReturnedRows ==
    /\ \A a \in Live : RowsLen(a.dataRows) = a.returnedRows
    /\ \A t \in Flushed : RowsLen(t.acc.dataRows) = t.acc.returnedRows

\* C2: the totalRows of an accumulator never decreases: no step replaces a
\* known total by a smaller one, or by the unbounded marker.
C2_TotalNeverDecreases ==
    [][\A r \in DOMAIN accs \cap DOMAIN accs' :
          LET old == accs[r].totalRows
              new == accs'[r].totalRows
          IN  old.inf \/ (~new.inf /\ new.n >= old.n)]_vars

\* C3: an accumulator leaves the store in exactly the step that hands it to
\* showToast, once: a step that removes a queryId shows the accumulator that
\* was stored for it and nothing else; an accumulator shown for a queryId is
\* no longer in the store and no pending timer refers to it (so neither the
\* completion branch nor a timer can flush it a second time).
C3_RemovedOnceShownOnce ==
    [][/\ \A q \in DOMAIN store :
             q \notin DOMAIN store' =>
                 /\ Len(shown') = 1
                 /\ shown'[1].ref = store[q]
                 /\ shown'[1].site \in {"complete", "timer"}
                 /\ shown'[1].acc = accs'[store[q]]
       /\ \A i \in 1..Len(shown') :
             shown'[i].site \in {"complete", "timer"} =>
                 /\ \A q \in DOMAIN store' : store'[q] # shown'[i].ref
                 /\ \A h \in DOMAIN timers' : timers'[h].acc # shown'[i].ref
                 /\ shown'[i].acc.queryId[1] \notin DOMAIN store'
                 /\ \/ \E q \in DOMAIN store :
                          store[q] = shown'[i].ref /\ q = shown'[i].acc.queryId[1]
                    \/ /\ shown'[i].ref \notin DOMAIN accs
                       /\ shown'[i].site = "complete"
                       /\ shown'[i].acc.queryId[1] \notin DOMAIN store
       /\ \A q \in DOMAIN store \cap DOMAIN store' : store'[q] = store[q]]_vars

\* C3 witness: a timer has flushed one query while another query is still
\* being accumulated.
C3_Witness ==
    /\ \E t \in Toasts : t.site = "timer"
    /\ store # << >>

\* C4: no accumulator is left dangling: whenever an accumulator is in the
\* store, a flush timer is pending for its queryId, so it is removed once
\* pages stop arriving.
C4_NeverDangling ==
    \A q \in DOMAIN store : \E h \in DOMAIN timers : timers[h].queryId = q

\* C5: a merge that reaches the known total completes in that very step: no
\* accumulator of the store has reached its total, the accumulator shown by
\* the completion branch has reached it, is out of the store and has no
\* pending timer, and a timer never flushes a completed accumulator.
C5_CompletionIsImmediate ==
    /\ \A a \in Live : ~GreaterEq(a.returnedRows, a.totalRows)
    /\ \A t \in Toasts :
          t.site = "complete" =>
              /\ GreaterEq(t.acc.returnedRows, t.acc.totalRows)
              /\ t.acc.queryId[1] \notin DOMAIN store
              /\ \A h \in DOMAIN timers :
                    timers[h].acc # t.ref /\ timers[h].queryId # t.acc.queryId[1]
              /\ t.acc.flushTimer \notin DOMAIN timers
    /\ \A t \in Toasts :
          t.site = "timer" => ~GreaterEq(t.acc.returnedRows, t.acc.totalRows)

\* C5 witness: a completion by a later page of a query whose timer was armed
C5_Witness ==
    \E t \in Toasts :
        /\ t.site = "complete"
        /\ t.acc.flushTimer # 0
        /\ Len(t.acc.dataRows) >= 2

InArrivalOrder(rows) ==
    \A i \in 1..Len(rows), j \in 1..Len(rows) : i < j => rows[i].page < rows[j].page

\* C7: a finished result has as many rows as its pages carried, in arrival
\* order, and its metadata is the first non-empty metadata of its pages.
C7_RowsAndFirstMetadata ==
    \A t \in Flushed :
        /\ RowsLen(t.acc.dataRows) = t.acc.pageSum
        /\ InArrivalOrder(t.acc.dataRows)
        /\ t.acc.firstMd # None => t.acc.metadata = t.acc.firstMd[1]


\* the pages of the store specification that carry no status block and no
\* metadata, and whose request URL holds a queryId
UrlOnlyPages ==
    {e \in Exchanges :
        /\ StatusOf(e) = None
        /\ e.md = MdUndefined
        /\ ExtractQueryIdFromUrl(e.url) # None}

\* the queryId each request URL of the model holds, if any
UrlQueryId == [u \in Urls |-> ExtractQueryIdFromUrl(u)]

\* the stored accumulator of Q1 after page 1 of the scenario: 1000 rows,
\* 5 columns, total 2500
AfterScenarioPage1 ==
    /\ Q1 \in DOMAIN store
    /\ LET a == accs[store[Q1]]
       IN  /\ a.returnedRows = 1000
           /\ RowsLen(a.dataRows) = 1000
           /\ a.totalRows = Finite(2500)
           /\ a.metadata = MdCols5

\* C8: a page without status block and metadata is merged into the stored
\* accumulator of the queryId found in its request URL (its rows appended,
\* its count added, metadata and total kept, no other entry created); a page
\* whose body names Q1 and whose URL names Q2 goes to Q1 and leaves Q2 alone;
\* and after page 1 (1000 rows, 5 columns, total 2500) a 1500-row page of
\* that kind completes the query in its own merge with 2500 rows and the
\* columns of page 1.
C8_UrlContinuationMerges ==
    [][/\ \A e \in UrlOnlyPages :
             LET q == UrlQueryId[e.url][1]
             IN  (q \in DOMAIN store /\ Deliver(DataOf(e), e.url, e.aura)) =>
                     LET r == store[q]
                     IN  /\ r \in DOMAIN accs'
                         /\ accs'[r].returnedRows
                               = accs[r].returnedRows + ThisPageRows(unwrapPayload(DataOf(e)))
                         /\ accs'[r].dataRows
                               = Append(accs[r].dataRows, [page |-> calls + 1, n |-> e.size])
                         /\ accs'[r].metadata = accs[r].metadata
                         /\ accs'[r].totalRows = accs[r].totalRows
                         /\ DOMAIN store' \subseteq DOMAIN store
                         /\ q \in DOMAIN store' => store'[q] = r
       /\ \A e \in Exchanges :
             (e.qid = Some(Q1) /\ e.url = UrlParamQ2
                 /\ Deliver(DataOf(e), e.url, e.aura)) =>
                     /\ (Q2 \in DOMAIN store) = (Q2 \in DOMAIN store')
                     /\ Q2 \in DOMAIN store =>
                            /\ store'[Q2] = store[Q2]
                            /\ accs'[store[Q2]] = accs[store[Q2]]
                     /\ \/ Q1 \in DOMAIN store'
                        \/ \E i \in 1..Len(shown') : shown'[i].acc.queryId = Some(Q1)
       /\ \A e \in UrlOnlyPages :
             (AfterScenarioPage1 /\ e.url = UrlPathQ1 /\ e.size = 1500
                 /\ Deliver(DataOf(e), e.url, e.aura)) =>
                     /\ Len(shown') = 1
                     /\ shown'[1].site = "complete"
                     /\ shown'[1].ref = store[Q1]
                     /\ shown'[1].acc.returnedRows = 2500
                     /\ RowsLen(shown'[1].acc.dataRows) = 2500
                     /\ shown'[1].acc.metadata = MdCols5
                     /\ Q1 \notin DOMAIN store'
                     /\ \A h \in DOMAIN timers' : timers'[h].queryId # Q1]_vars

\* C8 witness: the scenario has completed: 1000 rows of page 1 and 1500 rows
\* of a later page, total 2500, the five columns of page 1
C8_Witness ==
    \E t \in Toasts :
        /\ t.site = "complete"
        /\ t.acc.queryId = Some(Q1)
        /\ Len(t.acc.dataRows) = 2
        /\ t.acc.dataRows[1].n = 1000
        /\ t.acc.dataRows[2].n = 1500
        /\ t.acc.returnedRows = 2500
        /\ t.acc.totalRows = Finite(2500)
        /\ t.acc.metadata = MdCols5
        /\ t.acc.firstMd = Some(MdCols5)

\* the pages without queryId in body and URL that carry columns and rows
NoIdPages ==
    {e \in Exchanges :
        /\ ~TruthyId(PageQueryId(unwrapPayload(DataOf(e)), e.url))
        /\ e.md \in {MdCols5, MdColsB}
        /\ e.size > 0}

\* C9: an exchange without queryId that carries columns and rows is shown in
\* the step that receives it, the store and the timers stay as they are, and
\* the result shown has returnedRows = totalRows = the length of its rows.
C9_SinglePageResult ==
    [][\A e \in NoIdPages :
          Deliver(DataOf(e), e.url, e.aura) =>
              /\ store' = store
              /\ timers' = timers
              /\ \A r \in DOMAIN accs : r \in DOMAIN accs' => accs'[r] = accs[r]
              /\ Len(shown') = 1
              /\ shown'[1].site = "single"
              /\ shown'[1].acc.totalRows = Finite(shown'[1].acc.returnedRows)
              /\ shown'[1].acc.returnedRows = RowsLen(shown'[1].acc.dataRows)]_vars

\* the last handler was a patched call
Called == lastCall # None

\* Claim C10 as stated: for every call made through the patched fetch or the
\* patched send, asynchronous or synchronous, what the caller observes (a
\* returned value or a thrown / rejected error) is what the unpatched
\* primitive did for that call.
C10_CallerSeesPrimitiveOutcome ==
    Called => lastCall[1].observed = lastCall[1].underlying

\* Claim C10, amended: what the caller observes is what the unpatched
\* primitive did, except that send on a request opened with the async
\* argument false returns normally when the primitive throws a DOMException
\* named NetworkError.
C10_CallerSeesOutcomeButSyncNetworkError ==
    Called =>
        LET c == lastCall[1]
        IN  IF /\ c.api = "send"
               /\ ~c.async
               /\ c.underlying = Failed("throw", TRUE, "NetworkError")
            THEN c.observed = Settled("return")
            ELSE c.observed = c.underlying

\* a synchronous send whose primitive threw NetworkError has returned, while
\* a classifier result of an earlier exchange is behind it
C10_Witness ==
    /\ Called
    /\ lastCall[1].api = "send"
    /\ ~lastCall[1].async
    /\ lastCall[1].underlying = Failed("throw", TRUE, "NetworkError")
    /\ lastCall[1].observed = Settled("return")
    /\ calls > 0

\* the last handler was a response callback
Handled == handled # None

\* the response has a success status and a JSON content-type
SuccessJson(resp) == resp.status >= 200 /\ resp.status < 300 /\ resp.json

\* Claim C11: in both call styles the classifier is invoked for an exchange
\* only if the status is a success and the response is JSON; the callback of
\* any other exchange invokes no classifier, leaves the accumulator store and
\* the gate unchanged and emits no result, even if its body parses as JSON.
C11_ClassifierOnlyOnSuccessJson ==
    [][(Handled' /\ ~SuccessJson(handled'[1].resp))
          => /\ calls' = calls
             /\ store' = store
             /\ toolingArmed' = toolingArmed
             /\ shown' = << >>
             /\ soqlShown' = << >>]_vars

\* Claim C12: in any interleaving of preflight requests and responses, a
\* Tooling API data response produces a result only if a Tooling API
\* preflight request was issued after the most recent earlier Tooling API
\* data response was delivered, whatever that response contained; a
\* background response with no preflight of its own produces none.
C12_ToolingResultNeedsOwnPreflight ==
    [][( /\ Handled'
         /\ IsToolingData(handled'[1].url, handled'[1].resp.parsed)
         /\ soqlShown' # << >> )
          => preflighted]_vars

\* Claim C13: a response whose request URL matches the continuation pattern
\* /query/<id>-<offset> never produces a result and never changes the gate,
\* whatever its records, total and done flag are and whether or not the gate
\* is armed.
C13_ContinuationIsIgnored ==
    [][(Handled' /\ IsContinuationFetch(handled'[1].url))
          => /\ soqlShown' = << >>
             /\ shown' = << >>
             /\ toolingArmed' = toolingArmed]_vars

\* the response to a continuation request, with records and done false, has
\* just been delivered while the gate was armed
C13_Witness ==
    /\ Handled
    /\ IsContinuationFetch(handled[1].url)
    /\ handled[1].resp.parsed = Some(LimitedSoql)
    /\ toolingArmed
    /\ soqlShown = << >>

\* the progress reports of the current run, and the rows of its k-th page
Reports == SelectSeq(RunEvents, LAMBDA e : e.ev = "progress")
PageRows(k) == Reports[k].a - (IF k = 1 THEN 0 ELSE Reports[k - 1].a)

\* ceil(n / d)
CeilDiv(n, d) == (n + d - 1) \div d

\* the current run is a fetchAllRows run that has called onDone
AuraRunDone ==
    /\ toast # None
    /\ toast[1].variant = "aura"
    /\ RunEvents # << >>
    /\ RunEvents[Len(RunEvents)].ev = "done"

\* the server total of the current run was known and constant at total, and
\* each page held the rows left at its offset, up to BATCH of them: every
\* page but the last was full
ServedInFullPages(total) ==
    /\ toast[1].of.totalRows = Finite(total)
    /\ \A k \in 1..Len(Reports) :
          /\ Reports[k].b = total
          /\ LET left == total - (Reports[k].a - PageRows(k))
             IN  PageRows(k) = IF left < BATCH THEN left ELSE BATCH

\* Claim C14: a fetchAllRows run whose server total is known and constant
\* and in which every page but the last is full ends after exactly
\* ceil(total / BATCH) page requests, exact multiples of BATCH included;
\* with total 125000 it issues exactly 3 requests, the last page short.
C14_PagesIsCeilOfTotal ==
    \A total \in {25002, 99998, 125000} :
        (AuraRunDone /\ ServedInFullPages(total))
            => /\ Count(RunEvents, "request") = CeilDiv(total, BATCH)
               /\ total = 125000 =>
                     /\ Count(RunEvents, "request") = 3
                     /\ PageRows(3) = 25002

\* a run for 99998 rows, twice BATCH, has ended after two full pages
ExactMultipleServed ==
    AuraRunDone /\ ServedInFullPages(99998) /\ Len(Reports) = 2

\* a run for 125000 rows has ended after two full pages and a short one
C14_Witness ==
    /\ AuraRunDone
    /\ ServedInFullPages(125000)
    /\ Len(Reports) = 3
    /\ PageRows(1) = BATCH
    /\ PageRows(3) < BATCH
    /\ RunEvents[Len(RunEvents)].a = 125000

\* Claim C15: within one run of either variant at most one page request is
\* outstanding at any time: the request for page n+1 is issued only after
\* the response of page n has been received, parsed and appended (which the
\* run reports right before it issues the next request).
C15_OnePageOutstanding ==
    LET events == RunEvents
    IN  /\ Cardinality(pending) <= 1
        /\ pending # {} => run # None
        /\ \A i \in 1..Len(events) :
              (events[i].ev = "request" /\ events[i].a > 1)
                  => /\ events[i - 1].ev = "progress"
                     /\ Count(SubSeq(events, 1, i), "progress")
                           >= events[i].a - 1

\* the request for a third page is outstanding, in a run of each variant
C15_Witness ==
    /\ run # None
    /\ Cardinality(pending) = 1
    /\ Count(RunEvents, "request") = 3
    /\ RunEvents[Len(RunEvents)].ev = "request"

\* the runs in the log: run k holds the events from the k-th click up to the
\* next click
ClickAt(k) ==
    LET clicks == {i \in 1..Len(log) : log[i].ev = "click"}
    IN  CHOOSE i \in clicks : Cardinality({j \in clicks : j <= i}) = k
RunOf(k) ==
    SubSeq(log, ClickAt(k),
           IF k < Count(log, "click") THEN ClickAt(k + 1) - 1 ELSE Len(log))

\* run k has ended: no locals of it are left
Ended(k) == k < Count(log, "click") \/ run = None

\* Claim C16: every run of either variant ends by calling exactly one of
\* onDone and onError, never both and never either twice; after onError the
\* run issues no further page request, reports no further progress and never
\* delivers the rows fetched so far through onDone.
C16_OneTerminalCallback ==
    \A k \in 1..Count(log, "click") :
        LET events == RunOf(k)
            ends == {i \in 1..Len(events) : events[i].ev \in {"done", "error"}}
        IN  /\ Cardinality(ends) <= 1
            /\ \A i \in ends : i = Len(events)
            /\ Ended(k) <=> ends # {}
            /\ (ends # {} /\ k = Count(log, "click")) => pending = {}

\* a first run has failed after a merged page and a retry has delivered rows
C16_Witness ==
    /\ Count(log, "click") = 2
    /\ RunOf(1)[Len(RunOf(1))].ev = "error"
    /\ Count(RunOf(1), "progress") >= 1
    /\ RunOf(2)[Len(RunOf(2))].ev = "done"
    /\ RunOf(2)[Len(RunOf(2))].a > 0

\* the page outcomes that must abort a run: a 401 / 403 or other non-success
\* status, a transport failure, a body that is not JSON, and JSON without
\* the expected shape (for a REST page: no records array, no done flag)
AuraBadPage(o) ==
    \/ o.kind \in {"reject", "notjson", "noaction", "norv", "norows"}
    \/ o.status < 200
    \/ o.status >= 300
SoqlBadPage(o) ==
    \/ o.kind \in {"reject", "notjson", "null"}
    \/ o.status < 200
    \/ o.status >= 300
    \/ o.records = None
    \/ o.done = None

\* Claim C17: in both variants each of these page outcomes aborts the run
\* with a failure instead of ending it as a success (or going on).
C17_BadPageAborts ==
    [][\A p \in pending :
          /\ \A o \in AuraOutcomes :
                (AuraPageArrives(p, o) /\ AuraBadPage(o))
                    => log'[Len(log')].ev = "error"
          /\ \A o \in SoqlOutcomes :
                (SoqlPageArrives(p, o) /\ SoqlBadPage(o))
                    => log'[Len(log')].ev = "error"]_vars

\* the rows run k had fetched, and the last page request it made
Fetched(k) ==
    LET reports == SelectSeq(RunOf(k), LAMBDA e : e.ev = "progress")
    IN  IF reports = << >> THEN 0 ELSE reports[Len(reports)].a
LastRequest(k) ==
    LET made == SelectSeq(RunOf(k), LAMBDA e : e.ev = "request")
    IN  made[Len(made)]

\* the last step is a click that retries a failed run which had made a page
\* request
Retry ==
    /\ Count(log, "click") >= 1
    /\ log[Len(log)].ev = "error"
    /\ Count(RunOf(Count(log, "click")), "request") >= 1
    /\ Count(log', "click") = Count(log, "click") + 1
    /\ pending' # {}

\* the page request made by the last step
Issued == CHOOSE req \in pending' : req \notin pending

\* Claim C18: after a run has aborted with a failure having fetched k rows,
\* a retry resumes from the best-known offset: its first page request asks
\* for offset k (fetchAllRows) or for the last locator reached
\* (fetchAllSoqlRows), not for the beginning.
C18_RetryResumes ==
    [][Retry =>
          LET k == Count(log, "click")
          IN  IF toast[1].variant = "aura"
              THEN Issued.offset = Fetched(k)
              ELSE Issued.url = LastRequest(k).url]_vars

\* Claim C18, amended: a retry starts over: its first page request asks for
\* offset 0 (fetchAllRows) or for the locator the notification was shown
\* with (fetchAllSoqlRows), and the rows fetched by the failed run are not
\* carried over.
C18_RetryStartsOver ==
    [][Retry =>
          IF toast[1].variant = "aura"
          THEN Issued.offset = 0 /\ run'[1].allRows = << >>
          ELSE /\ Issued.url = toast[1].of.nextRecordsUrl[1]
               /\ RowsLen(run'[1].allRows) = toast[1].of.records[1]]_vars

\* a retry has issued its first page request after a run that had fetched a
\* page and failed on its second request
C18_Witness ==
    /\ Count(log, "click") = 2
    /\ RunOf(1)[Len(RunOf(1))].ev = "error"
    /\ Count(RunOf(1), "request") = 2
    /\ Fetched(1) > 0
    /\ RunEvents[Len(RunEvents)].ev = "request"
    /\ RunEvents[Len(RunEvents)].a = 1
    /\ pending # {}


\* a termination condition holds for the well-formed page o of a run with
\* locals r: the done flag is true, the page is empty, or the accumulated
\* records reach the declared total
SoqlTerminates(r, o) ==
    \/ o.done[1]
    \/ o.records[1] = 0
    \/ RowsLen(SoqlMerge(r, o).allRows) >= r.totalRows[1]

\* Claim C19: a fetchAllSoqlRows run stops after the first page for which a
\* termination condition holds (done flag true, empty page, or declared total
\* reached): it ends as done and issues no further page request, even if the
\* page carries a next locator and done is false.
C19_StopsOnTerminationCondition ==
    [][\A p \in pending, o \in SoqlOutcomes :
          (/\ SoqlPageArrives(p, o)
           /\ ~SoqlBadPage(o)
           /\ SoqlTerminates(run[1], o))
              => /\ log'[Len(log')].ev = "done"
                 /\ pending' = {}]_vars


\* the exchange e carries no queryId, neither in its body nor in its URL
NoQueryId(e) == ~TruthyId(PageQueryId(unwrapPayload(DataOf(e)), e.url))

\* Claim C20: a response of a query that carries no queryId (neither in its
\* body nor recoverable from its URL) produces its own result notification,
\* holding the rows of that response, even if it is a remaining-rows response
\* without column metadata.
C20_NoQueryIdResponseIsShown ==
    [][\A e \in Exchanges :
          (Deliver(DataOf(e), e.url, e.aura) /\ NoQueryId(e))
              => /\ Len(shown') = 1
                 /\ shown'[1].site = "single"
                 /\ RowsLen(shown'[1].acc.dataRows) = e.size]_vars


-----------------------------------------------------------------------------
(* Claims about the background worker *)

\* the QUERY_READY handlers started for tab t, and the clearTab calls
ReadyJobs(t) == {j \in DOMAIN jobs : jobs[j].kind = "ready" /\ jobs[j].tab = t}
ClearJobs(t) == {j \in DOMAIN jobs : jobs[j].kind = "clear" /\ jobs[j].tab = t}
\* every handler has finished
Quiet == \A j \in DOMAIN jobs : jobs[j].pc = "done"

\* Claim C21: after n QUERY_READY messages from one tab with no navigation
\* or tab removal in between, and once all handlers have finished, the
\* stored count for that tab is n, under every interleaving of the handlers'
\* reads and writes.
C21_CounterCountsEveryMessage ==
    \A t \in TabIds :
        (Quiet /\ ClearJobs(t) = {}) => getCount(t) = Cardinality(ReadyJobs(t))


-----------------------------------------------------------------------------
(* Claims about the flush timers *)

\* the timer h fires and flushes its accumulator
Flushes(h) == Fire(h) /\ shown' # << >>

TimersOf(ts, r) == {h \in DOMAIN ts : ts[h].acc = r}

\* Claim C23: each accumulator has at most one pending flush timer; a pending
\* timer exists only for an accumulator that is in the store; a timer that
\* fires emits the accumulator the store holds, never one that completed or
\* was flushed before; and every merge of a page into an accumulator cancels
\* the timer that was pending for it, so the only timer pending afterwards
\* is the one that merge armed.
C23_TimersFollowTheStore ==
    /\ [](/\ \A r \in DOMAIN accs : Cardinality(TimersOf(timers, r)) <= 1
          /\ \A h \in DOMAIN timers :
                /\ timers[h].queryId \in DOMAIN store
                /\ store[timers[h].queryId] = timers[h].acc
                /\ accs[timers[h].acc].flushTimer = h)
    /\ [][/\ \A h \in DOMAIN timers :
                Fire(h) => /\ Len(shown') = 1
                           /\ shown'[1].ref = store[timers[h].queryId]
                           /\ shown'[1].acc = accs[timers[h].acc]
                           /\ timers[h].queryId \notin DOMAIN store'
          /\ \A r \in DOMAIN accs \cap DOMAIN accs' :
                accs'[r].lastPage # accs[r].lastPage
                    => /\ \A h \in TimersOf(timers', r) :
                             timers'[h].armedAt = accs'[r].lastPage
                       /\ TimersOf(timers, r) \cap TimersOf(timers', r) = {}]_vars

\* a merge has replaced the pending timer of an accumulator while a timer is
\* pending for another one
C23_Witness ==
    \E h1, h2 \in DOMAIN timers :
        /\ h1 # h2
        /\ timers[h1].armedAt >= 2
        /\ Len(accs[timers[h1].acc].dataRows) >= 2


-----------------------------------------------------------------------------
(* Claims about the arm/consume gate *)

\* the response just delivered is a qualifying tooling data response: it
\* reached the classifier, its request went to the Tooling API query
\* endpoint, was neither a preflight nor a continuation, and it is a query
\* response with records
QualifyingToolingData ==
    /\ Handled'
    /\ calls' = calls + 1
    /\ isSoqlQueryResponse(handled'[1].resp.parsed[1])
    /\ handled'[1].resp.parsed[1].records[1] > 0
    /\ IsToolingQuery(handled'[1].url)
    /\ ~IsColumnsPreflight(handled'[1].url)
    /\ ~IsContinuationFetch(handled'[1].url)

\* the requests handed to the network by the last step
Sent == {x \in inflight' : x \notin inflight}

\* Claim C24: the arm/consume gate is one-shot.  A preflight request arms
\* it and nothing else does; the first qualifying tooling data response
\* that finds it armed produces a result and returns it to Idle; a
\* qualifying tooling data response that finds it Idle is ignored; and any
\* other response, the response to a preflight included, produces no
\* Tooling API result and leaves the gate as it is.
C24_GateIsOneShot ==
    [][LET qualifying == QualifyingToolingData
       IN  /\ ~Handled' =>
                 toolingArmed' =
                     (toolingArmed
                         \/ \E x \in Sent : IsToolingPreflight(x.url))
           /\ (qualifying /\ toolingArmed) =>
                 /\ soqlShown' =
                        << ShowSoqlToast(handled'[1].resp.parsed[1]) >>
                 /\ ~toolingArmed'
           /\ (qualifying /\ ~toolingArmed) =>
                 /\ soqlShown' = << >>
                 /\ ~toolingArmed'
           /\ (Handled' /\ ~qualifying) =>
                 /\ toolingArmed' = toolingArmed
                 /\ soqlShown' = << >> \/ ~IsToolingQuery(handled'[1].url)]_vars

\* the first qualifying response after a preflight has just produced its
\* result and consumed the gate, while another tooling data request is
\* still to be answered
C24_Witness ==
    /\ Handled
    /\ handled[1].url = UrlTooling
    /\ soqlShown # << >>
    /\ ~toolingArmed
    /\ \E x \in inflight : x.url = UrlTooling


-----------------------------------------------------------------------------
(* Claims about the page requests of a run *)

\* the last step has handed a page request of fetchAllRows to _origFetch
IssuesAura ==
    /\ toast # None
    /\ toast[1].variant = "aura"
    /\ \E req \in pending' : req \notin pending

\* the rows reported by the last progress report of the run of the events
\* (0 when it has made none)
Reported(events) ==
    LET reports == SelectSeq(events, LAMBDA e : e.ev = "progress")
    IN  IF reports = << >> THEN 0 ELSE reports[Len(reports)].a

\* Claim C25: the n-th page request of a fetchAllRows run carries the query
\* text '<base query> LIMIT 49999 OFFSET <o>', where the base query is the
\* captured query stripped of its LIMIT / OFFSET and o is the number of rows
\* returned by pages 1..n-1 of the run, which is the number of rows
\* accumulated; and it carries the URL, the action descriptor, the dataspace
\* and both correlation tokens as captured from the original request.
C25_PageRequestReplaysTheQuery ==
    [][IssuesAura =>
          LET info == toast[1].of.auraInfo[1]
              o == Reported(RunEvents')
          IN  /\ Issued.sql = PaginatedSql(stripLimitOffset(info.sql), 49999, o)
              /\ o = RowsLen(run'[1].allRows)
              /\ o = 49999 * (Count(RunEvents', "request") - 1)
              /\ Issued.rowLimit = 49999
              /\ Issued.url = info.auraUrl
              /\ Issued.descriptor = info.descriptor
              /\ Issued.dataspace = info.dataspace
              /\ Issued.context = info.auraContext
              /\ Issued.token = info.auraToken]_vars

\* the third page request of a run is outstanding: it asks for
\* "SELECT a FROM T LIMIT 49999 OFFSET 99998"
C25_Witness ==
    \E req \in pending :
        /\ req.page = 3
        /\ req.sql = <<"S","E","L","E","C","T"," ","a"," ","F","R","O","M"," ","T"," ","L","I","M","I","T"," ","4","9","9","9","9"," ","O","F","F","S","E","T"," ","9","9","9","9","8">>
        /\ req.context = Some("ctx")
        /\ req.token = Some("tok")


\* what the last step has appended to the log
Appended == SubSeq(log', Len(log) + 1, Len(log'))

\* the last step reports the page it received, of n rows, and goes on or
\* ends: one progress report with the rows reported so far plus n, followed
\* by the next page request or by the success callback for as many rows
ReportsPage(n) ==
    LET appended == Appended
    IN  /\ Len(appended) = 2
        /\ appended[1].ev = "progress"
        /\ appended[1].a = Reported(RunEvents) + n
        /\ appended[2].ev \in {"request", "done"}
        /\ appended[2].ev = "done" => appended[2].a = appended[1].a

\* what a step of AuraPageArrives (of SoqlPageArrives) for a page of outcome
\* o leaves of the run: the merged locals when the run goes on, and no
\* locals and the number of merged rows in the last event when it ends
AuraArrivalLeaves(o) ==
    LET m == AuraMerge(run[1], o)
    IN  IF AuraBreaks(m, o)
        THEN run' = None /\ log'[Len(log')].a = RowsLen(m.allRows)
        ELSE run' = Some([m EXCEPT !.pageNum = @ + 1])
SoqlArrivalLeaves(o) ==
    LET m == SoqlMerge(run[1], o)
    IN  IF TruthyUrl(m.currentNextUrl)
        THEN run' = Some(m)
        ELSE run' = None /\ log'[Len(log')].a = RowsLen(m.allRows)

\* Claim C26: in each run, progress is reported after every successfully
\* received page and before the next page request is issued, with the
\* cumulative number of rows fetched so far, so the reported count never
\* decreases; and the last report's count is the number of rows delivered to
\* the success callback.
C26_ProgressAfterEveryPage ==
    [][\A p \in pending :
          (run # None /\ Len(log') = Len(log) + 2) =>
             /\ run[1].variant = "aura" =>
                   \A o \in AuraOutcomes :
                       (/\ AuraFailure(o) = None
                        /\ AuraArrivalLeaves(o)
                        /\ AuraPageArrives(p, o))
                           => ReportsPage(o.rows)
             /\ run[1].variant = "soql" =>
                   \A o \in SoqlOutcomes :
                       (/\ SoqlFailure(o) = None
                        /\ SoqlArrivalLeaves(o)
                        /\ SoqlPageArrives(p, o))
                           => ReportsPage(IF o.records = None THEN 0
                                          ELSE o.records[1])]_vars

\* a run of fetchAllSoqlRows has ended in success after its initial report
\* and the reports of two pages
C26_Witness ==
    /\ toast # None
    /\ toast[1].variant = "soql"
    /\ Count(RunEvents, "progress") = 3
    /\ RunEvents[Len(RunEvents)].ev = "done"
    /\ RunEvents[Len(RunEvents)].a = 6000


-----------------------------------------------------------------------------
(* Claims about the credential of the continuation requests *)

\* Claim C28: every continuation request of a run of fetchAllSoqlRows carries
\* the Authorization header of the original request of the result being
\* extended, whatever headers other requests have set before or during the
\* run.
C28_CarriesTheOriginalCredential ==
    (run # None /\ run[1].variant = "soql" /\ toast[1].auth # None)
        => \A p \in pending : p.auth = toast[1].auth


-----------------------------------------------------------------------------
(* Claims about the runs and the interceptor *)

\* Claim C29: the page exchanges of a run of either variant bypass the
\* interceptor: no step of a run (the click that starts it, a page response
\* that resumes it) calls the classifier, so the step leaves the store, its
\* accumulators and timers and the Tooling API gate as they are, makes no
\* showToast / showSoqlToast call and leaves the notification of the run in
\* place.
C29_RunBypassesTheInterceptor ==
    [][log' # log =>
          /\ calls' = calls
          /\ UNCHANGED <<store, accs, timers>>
          /\ UNCHANGED toolingArmed
          /\ UNCHANGED <<shown, soqlShown>>
          /\ UNCHANGED <<opened, inflight>>
          /\ toast' # None
          /\ toast'[1].of = toast[1].of]_vars

\* a run has received a page and waits for the next while an accumulator
\* waits in the store for its timer
C29_Witness ==
    /\ run # None
    /\ pending # {}
    /\ Count(RunEvents, "request") >= 2
    /\ store # << >>
    /\ timers # << >>


-----------------------------------------------------------------------------
(* Claims about the independence of the queryIds *)

\* what the store holds for queryId q: its accumulator and the timers
\* pending for it
Held(q) ==
    [entry |-> IF q \in DOMAIN store
               THEN Some([ref |-> store[q], acc |-> accs[store[q]]])
               ELSE None,
     timers |-> [h \in {k \in DOMAIN timers : timers[k].queryId = q}
                    |-> timers[h]]]

\* the pages that are merged under queryId q: payload, status.rowCount and
\* replay context
PagesOf ==
    [q \in {Q1, Q2} |->
        {[payload |-> unwrapPayload(DataOf(e)),
          total |-> PageTotalRows(unwrapPayload(DataOf(e))),
          aura |-> e.aura] :
            e \in {x \in Exchanges :
                      PageQueryId(unwrapPayload(DataOf(x)), x.url) = Some(q)}}]

\* an accumulator without the names the model gives to pages and timers
Content(acc) ==
    [acc EXCEPT
        !.dataRows = [i \in 1..Len(@) |-> [page |-> 0, n |-> @[i].n]],
        !.lastPage = 0,
        !.flushTimer = IF @ = 0 THEN 0 ELSE 1]

\* the part of the state that belongs to queryId q, names left out
Local(q) ==
    [acc |-> IF q \in DOMAIN store
             THEN Some(Content(accs[store[q]])) ELSE None,
     pendingTimers |->
         Cardinality({h \in DOMAIN timers : timers[h].queryId = q})]

\* the results emitted by the last handler, names left out
Emitted == [i \in 1..Len(shown) |-> Content(shown[i].acc)]

\* what the merge of the page pg under queryId q makes of Local(q), and
\* what it emits, computed from Local(q) and the page alone
MergedLocally(q, pg) ==
    LET acc0 == IF Local(q).acc # None THEN Local(q).acc[1]
                ELSE Content(NewAccumulator(q, pg.payload, pg.total, pg.aura))
        acc == MergePage(acc0, pg.payload, pg.total, pg.aura, 0)
        outcome == MergeOutcome(acc)
    IN  [local |->
            CASE outcome = "complete" -> [acc |-> None, pendingTimers |-> 0]
              [] outcome = "arm" ->
                    [acc |-> Some([acc EXCEPT !.flushTimer = 1]),
                     pendingTimers |-> 1]
              [] OTHER ->
                    [acc |-> Some(acc),
                     pendingTimers |-> Local(q).pendingTimers],
         emitted |-> IF outcome = "complete" THEN << acc >> ELSE << >>]

\* the last step has merged a page under queryId q: processResponse was
\* called and its page is the last one of an accumulator of q
MergedUnder(q) ==
    /\ calls' = calls + 1
    /\ \E r \in DOMAIN accs' :
           accs'[r].queryId = Some(q) /\ accs'[r].lastPage = calls'

\* the last step was the timer of queryId q firing
FiredFor(q) ==
    /\ calls' = calls
    /\ \E h \in DOMAIN timers \ DOMAIN timers' : timers[h].queryId = q

\* Claim C30: merges for different queryIds are independent.  A merge or a
\* timer firing for one queryId leaves what the store holds for every other
\* queryId (accumulator with rows, counts, metadata and replay context,
\* pending timer) unchanged; and what a merge or a timer firing makes of its
\* own queryId's accumulator and timer, and the result it emits, is a
\* function of that queryId's accumulator and of a page of that queryId
\* alone, so the result emitted for a queryId is the same under every
\* interleaving with the pages of another queryId that keeps each query's
\* own order.
C30_QueryIdsAreIndependent ==
    [][/\ \A q \in DOMAIN store :
             (~MergedUnder(q) /\ ~FiredFor(q)) => Held(q)' = Held(q)
       /\ \A q \in {Q1, Q2} :
             /\ MergedUnder(q)
                    => \E pg \in PagesOf[q] :
                           /\ Local(q)' = MergedLocally(q, pg).local
                           /\ Emitted' = MergedLocally(q, pg).emitted
             /\ FiredFor(q)
                    => /\ Local(q)' = [acc |-> None, pendingTimers |-> 0]
                       /\ Emitted' = Local(q).acc]_vars

\* a page has been merged into the accumulator of one queryId, its second,
\* after the accumulator of another queryId was stored and its timer armed
C30_Witness ==
    \E a, b \in DOMAIN store :
        /\ a # b
        /\ Len(accs[store[a]].dataRows) >= 2
        /\ accs[store[a]].lastPage > accs[store[b]].lastPage
        /\ \E h \in DOMAIN timers : timers[h].queryId = b

-----------------------------------------------------------------------------
(* Claims about the failures a run reports *)

\* the page outcome o is a response with a non-success status
StatusFailure(o) == o.kind # "reject" /\ (o.status < 200 \/ o.status >= 300)

\* the failure the last step has reported
Reported1 == log'[Len(log')]

\* the failure the last step reported for the page outcome o is of another
\* kind than the failure reported for status 500
OtherKindThan500(o) ==
    o.status \in {401, 403}
        => Reported1.ev = "error" /\ Reported1.msg # ServerError(500).text

\* Claim C27: the failure reported for a 401 or 403 page status is of a
\* different kind than the failure reported for another non-success status
\* such as 500, not the same kind with a different status number.
C27_AuthFailureIsAKindOfItsOwn ==
    [][\A p \in pending :
          /\ \A o \in PageOutcomes :
                AuraPageArrives(p, o) => OtherKindThan500(o)
          /\ \A o \in RestOutcomes :
                SoqlPageArrives(p, o) => OtherKindThan500(o)]_vars

\* the failure the last step reported for the page outcome o, if it did, is
\* "Server error <status>" exactly when o has a non-success status
ReportsStatus(o) ==
    /\ StatusFailure(o) =>
          /\ Reported1.ev = "error"
          /\ Reported1.msg = "Server error"
          /\ Reported1.a = o.status
    /\ (~StatusFailure(o) /\ Reported1.ev = "error") =>
          Reported1.msg # "Server error" /\ Reported1.a = 0

\* Claim C27, amended: every non-success page status, 401 and 403 included,
\* is reported as a failure of one kind, "Server error" followed by the
\* status number, which no other fault is reported as; the caller can tell
\* an authentication failure from another non-success status only by the
\* number.
C27_StatusFailuresAreOneKind ==
    [][\A p \in pending :
          /\ \A o \in PageOutcomes : AuraPageArrives(p, o) => ReportsStatus(o)
          /\ \A o \in RestOutcomes : SoqlPageArrives(p, o) => ReportsStatus(o)]_vars

\* a run has failed with status 401 on its second page
C27_Witness ==
    /\ run = None
    /\ Len(RunEvents) > 0
    /\ RunEvents[Len(RunEvents)].ev = "error"
    /\ RunEvents[Len(RunEvents)].a = 401
    /\ Count(RunEvents, "request") = 2


-----------------------------------------------------------------------------
(* Claims about the replay context of an accumulator *)

\* Claim C31: the replay context of an accumulator is write-once: it is the
\* first non-absent replay context a merge for its queryId was called with
\* (none while no merge was called with one), and a later merge called with
\* a different replay context does not change it.
C31_ReplayContextIsWriteOnce ==
    /\ [](\A r \in DOMAIN accs :
             accs[r].auraInfo =
                 IF accs[r].supplied = << >> THEN None
                 ELSE Some(accs[r].supplied[1]))
    /\ [][\A r \in DOMAIN accs \cap DOMAIN accs' :
             accs[r].auraInfo # None
                 => accs'[r].auraInfo = accs[r].auraInfo]_vars

\* three pages have been merged into an accumulator, two of them with
\* replay contexts that differ
C31_Witness ==
    \E r \in DOMAIN accs :
        /\ Len(accs[r].supplied) = 2
        /\ accs[r].supplied[1] # accs[r].supplied[2]
        /\ Len(accs[r].dataRows) = 3


-----------------------------------------------------------------------------
(* Claims about the notifications a run can be started from *)

\* the result the notification t was shown for is capped and can be
\* replayed: fewer rows returned than a known total and a replay context,
\* or done false and a next-page locator
CappedWithContext(t) ==
    IF t.variant = "aura"
    THEN /\ ~t.of.totalRows.inf
         /\ t.of.returnedRows < t.of.totalRows.n
         /\ t.of.auraInfo # None
    ELSE /\ t.of.done = Some(FALSE)
         /\ t.of.nextRecordsUrl # None
         /\ t.of.nextRecordsUrl[1] # << >>

\* the result the notification t was shown for is complete
CompleteResult(t) ==
    IF t.variant = "aura"
    THEN GreaterEq(t.of.returnedRows, t.of.totalRows)
    ELSE t.of.done = Some(TRUE)

\* Claim C32: a run can be started only from the notification of a result
\* that is capped and has a replay context: the button is offered exactly
\* for such results, so never for a complete one, and every click that
\* starts a run, and every run in progress, belongs to such a notification.
C32_RunsStartFromCappedResults ==
    /\ [](toast # None =>
             /\ toast[1].fetchAll <=> CappedWithContext(toast[1])
             /\ CompleteResult(toast[1]) => ~toast[1].fetchAll
             /\ run # None => CappedWithContext(toast[1]))
    /\ [][Count(log', "click") > Count(log, "click")
             => CappedWithContext(toast[1])]_vars

\* a run is in progress: the first page request of a run
\* started from a capped result is outstanding
C32_Witness ==
    /\ run # None
    /\ pending # {}
    /\ Count(RunEvents, "request") = 1
    /\ CappedWithContext(toast[1])

-----------------------------------------------------------------------------
(* The base query of fetchAllRows, over captured query texts that end with
   LIMIT and OFFSET clauses in either order *)

\* the number of trailing clauses of a captured query text
MaxClauses == 2

\* trailing clauses as they are typed: both keywords, upper, lower and mixed
\* case, with the white space \s admits before and after
Clauses ==
    { <<" ","L","I","M","I","T"," ","1","0">>,
      <<" ","O","F","F","S","E","T"," ","5">>,
      <<" ","l","i","m","i","t"," ","7"," ">>,
      <<"\n","o","f","f","s","e","t"," ","2","0">>,
      <<" ","L","i","m","i","t","\t","3","\n">>,
      <<" "," ","O","f","f","s","e","t"," ","0">> }

\* a query text followed by a sequence of clauses
RECURSIVE WithClauses(_, _)
WithClauses(sql, cs) ==
    IF cs = << >> THEN sql
    ELSE WithClauses(sql \o Head(cs), Tail(cs))

\* the query texts a captured request can carry in auraInfo.sql
QueryTexts ==
    { WithClauses(sql, cs) :
        sql \in {SqlA, SqlB},
        cs \in UNION { [1..n -> Clauses] : n \in 0..MaxClauses } }

\* const baseSql = stripLimitOffset(auraInfo.sql)
StripCaptured ==
    /\ strippedSql = None
    /\ strippedSql' = Some(stripLimitOffset(capturedSql))
    /\ UNCHANGED <<store, accs, timers, shown, soqlShown, calls, toolingArmed,
                   opened, inflight, requests, preflighted, handled, lastCall,
                   toast, run, pending, log, session, badge, jobs, received,
                   soqlAuthHeader, capturedSql, emitted>>

\* a page that has captured a request with some query text
InitStrip ==
    /\ store = << >>
    /\ accs = << >>
    /\ timers = << >>
    /\ shown = << >>
    /\ soqlShown = << >>
    /\ calls = 0
    /\ toolingArmed = FALSE
    /\ opened = {}
    /\ inflight = {}
    /\ requests = 0
    /\ preflighted = FALSE
    /\ handled = None
    /\ lastCall = None
    /\ toast = None
    /\ run = None
    /\ pending = {}
    /\ log = << >>
    /\ session = << >>
    /\ badge = << >>
    /\ jobs = << >>
    /\ received = 0
    /\ soqlAuthHeader = None
    /\ capturedSql \in QueryTexts
    /\ strippedSql = None
    /\ emitted = None

NextStrip ==
    StripCaptured

SpecStrip == InitStrip /\ [][NextStrip]_vars

\* the text ends with a clause of the keyword kw: /\s+KW\s+\d+\s*$/i matches
EndsWithClause(s, kw) == StripClause(s, kw) # s

\* the captured text ends with the clauses in the order OFFSET m LIMIT n
OffsetThenLimit(s) ==
    /\ EndsWithClause(s, LitLimit)
    /\ EndsWithClause(StripClause(s, LitLimit), LitOffset)

\* C33: the base query produced by stripping a captured query text has no
\* trailing LIMIT <n> or OFFSET <n> clause left, whichever order the two
\* clauses appear in, and stripping it again returns it unchanged.
C33_BaseQueryHasNoTrailingClause ==
    strippedSql # None =>
        /\ ~EndsWithClause(strippedSql[1], LitLimit)
        /\ ~EndsWithClause(strippedSql[1], LitOffset)
        /\ stripLimitOffset(strippedSql[1]) = strippedSql[1]

\* a text in the order OFFSET m LIMIT n has been stripped
C33_Witness ==
    /\ strippedSql # None
    /\ OffsetThenLimit(capturedSql)
    /\ EndsWithClause(strippedSql[1], LitOffset)

-----------------------------------------------------------------------------
\* the replay context of the notification t lacks the request URL or the
\* query text
LacksUrlOrSql(t) ==
    /\ t.variant = "aura"
    /\ t.of.auraInfo # None
    /\ \/ t.of.auraInfo[1].auraUrl = << >>
       \/ t.of.auraInfo[1].sql = << >>

\* C34: a query-resubmission run started with a replay context that lacks
\* the request URL or the query text reports a failure at once: the run
\* consists of the click and the failure report alone, with no page request,
\* no progress report and no success callback, and leaves no run in progress.
C34_MissingContextFailsAtOnce ==
    (toast # None /\ LacksUrlOrSql(toast[1])) =>
        /\ run = None
        /\ pending = {}
        /\ \A k \in 1..Count(log, "click") :
               RunOf(k) = << Event("click", 0, 0),
                             ErrorEvent(Message("Missing Aura context")) >>

\* a run has been started, and started again, from the notification of a
\* capped result whose replay context has no request URL
C34_Witness ==
    /\ toast # None
    /\ LacksUrlOrSql(toast[1])
    /\ toast[1].fetchAll
    /\ Count(log, "click") = 2
    /\ Count(log, "error") = 2

-----------------------------------------------------------------------------
(* The controls of a notification: Fetch all, Download, Dismiss and Close,
   and the closing animation that removes the notification *)

MaxToastRuns == 2

\* the click handlers of Close and Dismiss: animateClose()
ClickDismiss ==
    /\ RunFrame
    /\ toast # None
    /\ ~toast[1].removed
    /\ toast[1].controls = "enabled"
    /\ toast' = Some([toast[1] EXCEPT !.closing = @ \cup {"close"}])
    /\ UNCHANGED <<run, pending, log>>

\* the click handler of Download: animateClose(() => triggerDownload(acc))
ClickDownload ==
    /\ RunFrame
    /\ toast # None
    /\ ~toast[1].removed
    /\ toast[1].controls = "enabled"
    /\ toast' = Some([toast[1] EXCEPT !.closing = @ \cup {"download"}])
    /\ UNCHANGED <<run, pending, log>>

\* the animationend listeners of animateClose: host.remove(), then the
\* callback, which downloads the rows the notification was shown for
AnimationEnd ==
    /\ RunFrame
    /\ toast # None
    /\ ~toast[1].removed
    /\ toast[1].closing # {}
    /\ toast' = Some([toast[1] EXCEPT !.closing = {}, !.removed = TRUE])
    /\ log' = IF "download" \in toast[1].closing
              THEN Append(log, Event("download", 0, 0))
              ELSE log
    /\ UNCHANGED <<run, pending>>

\* notifications of a capped Aura result, of a complete one and of a limited
\* REST result
ToastInputs ==
    {AuraToast(FlushedAcc(e)) :
        e \in {CappedPage(125000, MdCols5, Some(AuraA)),
               [PlainPage EXCEPT !.md = MdCols5, !.aura = Some(AuraA)]}}
        \cup {SoqlToast(LimitedSoql)}

\* a failure, a page that is followed by another and a last page
ToastAuraOutcomes ==
    {AuraOutcome("reject", 200, 0, None, MdUndefined),
     AuraOutcome("page", 200, BATCH, Some(125000), MdColsB),
     AuraOutcome("page", 200, 25002, Some(125000), MdColsB)}

NextToast ==
    \/ \E t \in ToastInputs : Notify(t)
    \/ Count(log, "click") < MaxToastRuns /\ ClickFetchAllAura
    \/ \E p \in pending, o \in ToastAuraOutcomes :
           (AuraContinues(o) => PagesLeft) /\ AuraPageArrives(p, o)
    \/ Count(log, "click") < MaxToastRuns /\ ClickFetchAllSoql
    \/ \E p \in pending, o \in AuthOutcomes :
           (SoqlContinues(o) => PagesLeft) /\ SoqlPageArrives(p, o)
    \/ ClickDismiss
    \/ ClickDownload
    \/ AnimationEnd

SpecToast == Init /\ [][NextToast]_vars

\* while a run is in progress the controls are locked, and while they are
\* enabled no run is in progress
LockedWhileInProgress ==
    /\ run # None => toast # None /\ toast[1].controls = "locked"
    /\ (toast # None /\ toast[1].controls = "enabled") =>
           run = None /\ pending = {}

\* while a run is in progress no click handler of the notification runs
NoClickWhileInProgress ==
    run # None =>
        ~(ClickFetchAllAura \/ ClickFetchAllSoql \/ ClickDismiss
              \/ ClickDownload)

\* a run that was followed by another has ended with a failure report
RetryOnlyAfterFailure ==
    \A k \in 1..(Count(log, "click") - 1) :
        RunOf(k)[Len(RunOf(k))].ev = "error"

\* while a run is in progress the notification is not removed and its rows
\* are not downloaded
StaysWhileInProgress ==
    run # None =>
        /\ toast'[1].removed = toast[1].removed
        /\ Count(log', "download") = Count(log, "download")

\* C35: while a reconstruction run started from a notification is in
\* progress, the controls of that notification are locked, so no second run
\* can be started from it and it cannot be dismissed or downloaded; a new run
\* from the same notification starts only after the previous run has reported
\* a failure, so at most one run per notification is in progress at a time.
C35_LockedForTheRun ==
    /\ [](LockedWhileInProgress /\ RetryOnlyAfterFailure)
    /\ [][NoClickWhileInProgress /\ StaysWhileInProgress]_vars

\* the part of C35 about the controls and the clicks
C35_ControlsAreLocked ==
    /\ [](LockedWhileInProgress /\ RetryOnlyAfterFailure)
    /\ [][NoClickWhileInProgress]_vars

\* the notification has been removed and its rows downloaded while the run
\* started from it was in progress
C35_Witness ==
    /\ run # None
    /\ toast # None
    /\ toast[1].removed
    /\ Count(log, "download") = 1

-----------------------------------------------------------------------------
\* the last event of tab t was its removal or the start of a navigation:
\* every QUERY_READY handler of the tab was started before a clearTab call
ClearedLast(t) ==
    /\ ClearJobs(t) # {}
    /\ \A r \in ReadyJobs(t) : \E c \in ClearJobs(t) : r < c

\* C36: after a tab is removed or starts a new navigation, and once all
\* handlers have finished, session storage holds no counter entry for the
\* tab, under every interleaving of the clear with a QUERY_READY increment
\* that was in progress for the tab.
C36_ClearedTabHasNoEntry ==
    \A t \in TabIds :
        (Quiet /\ ClearedLast(t)) => t \notin DOMAIN session

\* an increment and a later clear of the same tab have both finished and the
\* entry of the tab is in session storage
C36_Witness ==
    \E t \in TabIds :
        /\ Quiet
        /\ ClearedLast(t)
        /\ ReadyJobs(t) # {}
        /\ t \in DOMAIN session

-----------------------------------------------------------------------------
\* the reports and the page requests among the events of a run
IsProgress(e) == e.ev = "progress"
IsRequest(e) == e.ev = "request"

\* the rows of the pages a run has fetched, in the order of its reports:
\* the i-th report counts the rows of the first i pages
FetchedPages(events) ==
    LET pr == SelectSeq(events, IsProgress)
        Cat[i \in 0..Len(pr)] ==
            IF i = 0 THEN << >>
            ELSE PushRows(Cat[i - 1],
                          pr[i].a - (IF i = 1 THEN 0 ELSE pr[i - 1].a), i)
    IN  Cat[Len(pr)]

\* the first page request asks for offset 0 and each further one for the
\* number of rows fetched before it
OffsetsFromZero(events) ==
    LET pr == SelectSeq(events, IsProgress)
        rq == SelectSeq(events, IsRequest)
    IN  /\ Len(rq) = Len(pr)
        /\ \A i \in 1..Len(rq) :
               /\ rq[i].a = i
               /\ rq[i].b = IF i = 1 THEN 0 ELSE pr[i - 1].a

\* C37: the rows delivered by a successful query-resubmission run are the
\* concatenation, in fetch order, of the pages fetched in that run from
\* offset 0 on; the rows the capped result holds are not among them, and the
\* final result has returnedRows = totalRows = the number of delivered rows.
C37_DeliversTheFetchedPages ==
    \A k \in 1..Count(log, "click") :
        LET events == RunOf(k)
            last == events[Len(events)]
        IN  (toast[1].variant = "aura" /\ last.ev = "done") =>
                /\ last.acc # None
                /\ OffsetsFromZero(events)
                /\ last.acc[1].dataRows = FetchedPages(events)
                /\ last.acc[1].returnedRows = RowsLen(FetchedPages(events))
                /\ last.acc[1].totalRows =
                       Finite(RowsLen(FetchedPages(events)))
                /\ last.a = RowsLen(FetchedPages(events))

\* a run started from a capped result that holds rows has delivered three
\* pages
C37_Witness ==
    /\ toast # None
    /\ toast[1].variant = "aura"
    /\ toast[1].of.returnedRows > 0
    /\ RunEvents # << >>
    /\ RunEvents[Len(RunEvents)].ev = "done"
    /\ Len(RunEvents[Len(RunEvents)].acc[1].dataRows) = 3
    /\ RunEvents[Len(RunEvents)].acc[1].returnedRows = 125000

-----------------------------------------------------------------------------
(* The interceptor with the history of the results it has emitted: the
   objects handed to showToast stay alive in the notifications' listeners *)

InitEmit ==
    /\ store = << >>
    /\ accs = << >>
    /\ timers = << >>
    /\ shown = << >>
    /\ soqlShown = << >>
    /\ calls = 0
    /\ toolingArmed = FALSE
    /\ opened = {}
    /\ inflight = {}
    /\ requests = 0
    /\ preflighted = FALSE
    /\ handled = None
    /\ lastCall = None
    /\ toast = None
    /\ run = None
    /\ pending = {}
    /\ log = << >>
    /\ session = << >>
    /\ badge = << >>
    /\ jobs = << >>
    /\ received = 0
    /\ soqlAuthHeader = None
    /\ capturedSql = << >>
    /\ strippedSql = None
    /\ emitted = Some(<< >>)

\* the exchanges of one queryId
EmitExchanges ==
    {e \in Exchanges :
        PageQueryId(unwrapPayload(DataOf(e)), e.url) = Some(Q1)}

NextEmit ==
    \/ \E e \in EmitExchanges : Deliver(DataOf(e), e.url, e.aura)
    \/ \E h \in DOMAIN timers : Fire(h)

SpecEmit == InitEmit /\ [][NextEmit]_vars

\* the rows, counts and metadata of a result
Result(acc) ==
    [dataRows |-> acc.dataRows, returnedRows |-> acc.returnedRows,
     totalRows |-> acc.totalRows, metadata |-> acc.metadata]

\* every emitted result is as it was when it was emitted
EmittedResultsStay ==
    \A i \in 1..Len(emitted[1]) :
        /\ emitted[1][i].ref \in DOMAIN accs
        /\ Result(accs[emitted[1][i].ref]) = Result(emitted[1][i].acc)

\* a result has been emitted for queryId q by completion or by timer
WasEmitted(q) ==
    \E i \in 1..Len(emitted[1]) : emitted[1][i].acc.queryId = Some(q)

\* the last step has merged a page under queryId q into an object that was
\* not there before and is none of the emitted ones, and the object holds
\* the rows of that page alone
MergedIntoNew(q) ==
    \E r \in DOMAIN accs' \ (DOMAIN accs \cup EmittedRefs) :
        /\ accs'[r].queryId = Some(q)
        /\ accs'[r].lastPage = calls'
        /\ \A k \in 1..Len(accs'[r].dataRows) :
               accs'[r].dataRows[k].page = calls'
        /\ \E pg \in PagesOf[q] :
               /\ accs'[r].returnedRows = ThisPageRows(pg.payload)
               /\ RowsLen(accs'[r].dataRows) = pg.payload.dataRows[1]

\* C38: a finished result, once emitted for a queryId, is never changed
\* afterwards: a page that arrives for the same queryId after its
\* accumulator was flushed, by completion or by timer, is merged into a newly
\* created accumulator that starts with zero rows, and the rows, counts and
\* metadata of the emitted result stay as they were.
C38_EmittedResultsAreFinal ==
    /\ [](EmittedResultsStay)
    /\ [][\A q \in {Q1, Q2} :
              (WasEmitted(q) /\ q \notin DOMAIN store /\ MergedUnder(q))
                  => MergedIntoNew(q)]_vars

\* a result was emitted for a queryId by completion, and a later page of the
\* same queryId is held in the store by another object
C38_Witness ==
    \E i \in 1..Len(emitted[1]) :
        /\ emitted[1][i].site = "complete"
        /\ emitted[1][i].acc.returnedRows > 0
        /\ \E q \in DOMAIN store :
               /\ emitted[1][i].acc.queryId = Some(q)
               /\ store[q] # emitted[1][i].ref
               /\ accs[store[q]].returnedRows > 0

\* the same after a flush by timer
C38_WitnessTimer ==
    \E i \in 1..Len(emitted[1]) :
        /\ emitted[1][i].site = "timer"
        /\ \E q \in DOMAIN store :
               /\ emitted[1][i].acc.queryId = Some(q)
               /\ store[q] # emitted[1][i].ref
               /\ accs[store[q]].returnedRows > 0

====
